---------------------------- MODULE Spec2Model ----------------------------
(***************************************************************************)
(* A model of mplcairo's GraphicsContextRenderer (src/src/_mplcairo.cpp)   *)
(* and of its path utilities (src/unnamed/part_001, the _util.cpp of the   *)
(* repository).                                                            *)
(*                                                                         *)
(* The module holds several specifications over one set of variables:      *)
(*   Spec        the graphics state stack, the cairo save/restore stack    *)
(*               and the draw_* calls;                                     *)
(*   SpecStyle   the setters that write cairo's pen (cap, join, dash,      *)
(*               source colour) and the colour a draw call applies;        *)
(*   SpecText    get_text_width_height_descent;                            *)
(*   SpecRegion  copy_from_bbox / restore_region on the pixel buffer;      *)
(*   SpecBreak   load_path_exact on longer paths without codes, with       *)
(*               non-finite vertices among few finite ones;                *)
(*   SpecExact   load_path_exact on a path with codes;                     *)
(*   SpecSnap    the snappers of the two loaders on their own;             *)
(*   SpecLoad    load_path_exact on a path without codes, vertex by        *)
(*               vertex, with its Cohen-Sutherland clipping and snapping;  *)
(*   SpecColl    the pattern cache of one or more draw_path_collection     *)
(*               calls;                                                    *)
(*   SpecAA      the antialias mode inside and after an AdditionalContext; *)
(*   SpecMatrix  matrix_from_transform;                                    *)
(*   SpecMarkers draw_markers, instance by instance;                       *)
(*   SpecStamp   the patch draw_markers paints for one instance;           *)
(*   SpecMath    MathtextBackend and its ink extents;                      *)
(*   SpecMesh    draw_quad_mesh;                                           *)
(*   SpecResize  SpecRegion with _set_size;                                *)
(*   SpecIndex   the vertex rows load_path_exact reads on a path with      *)
(*               codes;                                                    *)
(*   SpecChunk   the chunked stroke of draw_path.                          *)
(* Each specification leaves the variables of the others at rest.          *)
(***************************************************************************)
EXTENDS Integers, Sequences, FiniteSets, TLC

VARIABLES
  \* ---- GraphicsContextRenderer and its cairo_t
  states,      \* std::stack<AdditionalState> stored under STATE_KEY (top = last)
  gstate,      \* cairo's own stack of saved graphics states, by who saved
  crStatus,    \* cairo_status(cr_): an error is sticky, later calls are no-ops
  surfType,    \* "image" | "vector": cairo_surface_get_type(cairo_get_target)
  liveCtx,     \* offscreen cairo_t created by a call and not destroyed
  livePat,     \* cairo_pattern_t created by a call and not destroyed
  ncalls,      \* number of calls made so far (bounded)
  expect,      \* the state stack as push / set / pop alone would leave it
  last,        \* what the last call was and what it saw on entry
  ub,          \* the program has left defined behaviour
  \* ---- Region capture / restore
  width_, height_,   \* the recorded size of the target
  surf,        \* the image surface's own width, height and stride
  raw,         \* the image surface's bytes, stride * surface height of them
  region,      \* the Region last returned by copy_from_bbox, or NoRegion
  rlast,       \* what the last region call did
  ndraw,       \* number of drawing steps made on the pixel buffer (bounded)
  \* ---- cairo's pen: line cap, line join, dash and source colour
  pen,         \* the attributes of cr_ that the style setters write
  \* ---- get_text_width_height_descent
  txt,         \* the last text measurement: its extents and what it returned
  \* ---- load_path_exact
  lp,          \* the loader's locals and its output
  \* ---- draw_path_collection and its PatternCache
  coll         \* the collection call in progress and its cache

gcrVars    == <<states, gstate, crStatus, surfType, liveCtx, livePat, ncalls,
                expect, last, ub>>
regionVars == <<width_, height_, surf, raw, region, rlast, ndraw>>
notRegion  == <<states, gstate, crStatus, surfType, liveCtx, livePat, ncalls,
                expect, last, ub, pen, txt, lp, coll>>
notGcr     == <<width_, height_, surf, raw, region, rlast, ndraw, pen, txt, lp,
                coll>>
vars       == <<states, gstate, crStatus, surfType, liveCtx, livePat, ncalls,
                expect, last, ub, width_, height_, surf, raw, region, rlast,
                ndraw, pen, txt, lp, coll>>

---------------------------------------------------------------------------
(* Bounds of the model.                                                    *)

\* calls made on one GraphicsContextRenderer in one behaviour
MaxCalls == 3
\* vertices of a path handed to draw_markers
MaxVerts == 2

---------------------------------------------------------------------------
(* AdditionalState, and the values the setters are called with.            *)

None == "None"

AntialiasT == {"NONE", "BEST"}
BoolT      == {"true", "false"}

AdditionalState ==
  [alpha : {None, "a50"},
   antialias : AntialiasT \cup BoolT,
   clip_rectangle : {None, "rect"},
   clip_path : {None, "path"},
   hatch : {None, "/"},
   hatch_color : {"rc", "red"},
   sketch : {None, "sketch"},
   snap : BOOLEAN]

\* The base frame made by the constructor.
BaseState ==
  [alpha |-> None, antialias |-> "true", clip_rectangle |-> None,
   clip_path |-> None, hatch |-> None, hatch_color |-> "rc",
   sketch |-> None, snap |-> TRUE]

Top(s) == s[Len(s)]
SetTop(s, f) == [s EXCEPT ![Len(s)] = f]
Pop(s) == SubSeq(s, 1, Len(s) - 1)

---------------------------------------------------------------------------
(* cairo's save / restore stack.  A cairo_t in an error status ignores     *)
(* every call; cairo_restore without a matching cairo_save, or with a      *)
(* group on top, sets CAIRO_STATUS_INVALID_RESTORE; cairo_pop_group        *)
(* without a group on top sets CAIRO_STATUS_INVALID_POP_GROUP.             *)
(* A cairo state is the pair <<gstate, status>>; each saved state keeps    *)
(* the name of the code that saved it: "new_gc", "scope" (the              *)
(* AdditionalContext), "inner" (a cairo_save inside a draw call), "group". *)

Cr(g, st) == [g |-> g, st |-> st]

cairo_save(c, by) ==
  IF c.st # "SUCCESS" THEN c ELSE Cr(Append(c.g, by), c.st)

cairo_restore(c) ==
  IF c.st # "SUCCESS" THEN c
  ELSE IF Len(c.g) = 0 \/ Top(c.g) = "group" THEN Cr(c.g, "INVALID_RESTORE")
  ELSE Cr(Pop(c.g), c.st)

cairo_push_group(c) ==
  IF c.st # "SUCCESS" THEN c ELSE Cr(Append(c.g, "group"), c.st)

cairo_pop_group(c) ==
  IF c.st # "SUCCESS" THEN c
  ELSE IF Len(c.g) = 0 \/ Top(c.g) # "group" THEN Cr(c.g, "INVALID_POP_GROUP")
  ELSE Cr(Pop(c.g), c.st)

\* n times cairo_save inside a draw call
RECURSIVE SaveN(_, _)
SaveN(c, n) == IF n = 0 THEN c ELSE SaveN(cairo_save(c, "inner"), n - 1)


---------------------------------------------------------------------------
(* Inputs of the draw_* calls.  An exception ends a call at the first      *)
(* statement that throws, so an input is abstracted to the first point of  *)
(* the call that fails on it ("none": no statement throws).                *)

\* rcParams["path.simplify_threshold"] as a fraction <<numerator, denominator>>
Thresholds == {<<1, 32>>, <<1, 1>>}

\* std::ceil(1 / simplify_threshold)
CeilInv(t) == (t[2] + t[1] - 1) \div t[1]

\* finiteness of the device position of each vertex / offset of an input
FiniteFlags == UNION {[1..n -> BOOLEAN] : n \in 0..MaxVerts}

InvalidArgument == "invalid_argument"
RuntimeError    == "runtime_error"

\* The outcome of a call: the cairo stack, the snap flag of the top frame,
\* the exception that left the call (None: it returned), and the native
\* handles it created and did not release; fwd: the call was handed to
\* another implementation.
Outcome(c, snap, err, ctx, pat) ==
  [c |-> c, snap |-> snap, err |-> err, ctx |-> ctx, pat |-> pat, fwd |-> FALSE]

\* AdditionalContext: cairo_save on entry, cairo_restore in the destructor;
\* the clip rectangle's inner cairo_save / cairo_restore pair is balanced.
AdditionalContextEnter(c, f) ==
  IF f.clip_rectangle # None
    THEN cairo_restore(cairo_save(cairo_save(c, "scope"), "inner"))
    ELSE cairo_save(c, "scope")

AdditionalContextExit(c) == cairo_restore(c)

\* has_vector_surface(cr)
has_vector_surface(type) == type = "vector"

\* What load_path_exact(cr, path, matrix) throws: the path's shape checks,
\* then get_additional_state(cr), evaluated only on a raster target, which
\* throws for a cairo_t that carries no state stack.
load_path_exact_error(pathOk, vector, crHasState) ==
  IF ~pathOk THEN InvalidArgument
  ELSE IF ~has_vector_surface(IF vector THEN "vector" ELSE "image") /\ ~crHasState
    THEN RuntimeError
  ELSE None

\* fill_and_stroke_exact(cr, path, matrix, fill, stroke) with a stroke colour
\* (draw_markers always passes one): cairo_save, load_path_exact, cairo_restore.
\* Returns the exception and the cairo_save calls left open on cr.
fill_and_stroke_exact(pathOk, vector, crHasState) ==
  LET e == load_path_exact_error(pathOk, vector, crHasState)
  IN  [err |-> e, open |-> IF e = None THEN 0 ELSE 1]

---------------------------------------------------------------------------
(* draw_gouraud_triangles, draw_image, draw_quad_mesh, draw_text: the gc   *)
(* check, then the AdditionalContext around everything else.               *)

GouraudFaults  == {"none", "gc", "transform", "shapes"}
ImageFaults    == {"none", "gc", "shape"}
QuadMeshFaults == {"none", "gc", "transform", "shapes", "offsets"}
TextFaults     == {"none", "gc", "font"}

ScopedDraw(c, f, fault) ==
  IF fault = "gc" THEN Outcome(c, f.snap, InvalidArgument, 0, 0)
  ELSE LET c1 == AdditionalContextEnter(c, f)
       IN  Outcome(AdditionalContextExit(c1), f.snap,
                   IF fault = "none" THEN None
                   ELSE IF fault = "font" THEN RuntimeError
                   ELSE InvalidArgument,
                   0, 0)

---------------------------------------------------------------------------
(* draw_path                                                               *)

PathFaults == {"none", "gc", "transform", "path", "color"}

\* in: [fault, fc]; the hatch of the top frame decides get_hatch_path().
draw_path_outcome(c, f, in) ==
  IF in.fault = "gc" THEN Outcome(c, f.snap, InvalidArgument, 0, 0)
  ELSE
    LET c1 == AdditionalContextEnter(c, f)
        exit(cx, e) == Outcome(AdditionalContextExit(cx), f.snap, e, 0, 0)
    IN  IF in.fault = "transform" THEN exit(c1, InvalidArgument)
        ELSE IF in.fc /\ in.fault = "path" THEN exit(c1, InvalidArgument)
        \* cairo_save; to_rgba(*fc, alpha) throws; no cairo_restore
        ELSE IF in.fc /\ in.fault = "color" THEN exit(cairo_save(c1, "inner"), InvalidArgument)
        \* hatch: cairo_save ... load_path() throws; no cairo_restore
        ELSE IF f.hatch # None /\ in.fault = "path"
          THEN exit(cairo_save(c1, "inner"), InvalidArgument)
        ELSE IF in.fault = "path" THEN exit(c1, InvalidArgument)
        ELSE exit(c1, None)

---------------------------------------------------------------------------
(* draw_markers                                                            *)

MarkersFaults == {"none", "gc", "marker_transform", "transform", "color",
                  "marker_path"}

\* the grid allocated also when it is as large as the number of instances
StampGridAtMost(type, thr, n_vertices) ==
  LET simplify_threshold == IF has_vector_surface(type) THEN <<0, 1>> ELSE thr
      n_subpix == IF simplify_threshold[1] = 0 THEN 0 ELSE CeilInv(simplify_threshold)
  IN  /\ 16 * simplify_threshold[1] >= simplify_threshold[2]
      /\ n_subpix * n_subpix <= n_vertices

\* the stamp grid is allocated
StampGridActive(type, thr, n_vertices) ==
  LET simplify_threshold == IF has_vector_surface(type) THEN <<0, 1>> ELSE thr
      n_subpix == IF simplify_threshold[1] = 0 THEN 0 ELSE CeilInv(simplify_threshold)
  IN  /\ 16 * simplify_threshold[1] >= simplify_threshold[2]
      /\ n_subpix * n_subpix < n_vertices

\* The direct loop over the vertices: cairo_save, `continue` on a non-finite
\* position, draw_one_marker, cairo_restore.  Returns the cairo stack and the
\* exception, if the marker path makes fill_and_stroke_exact throw.
RECURSIVE MarkersDirectLoop(_, _, _, _, _)
MarkersDirectLoop(c, verts, i, pathOk, vector) ==
  IF i > Len(verts) THEN [c |-> c, err |-> None]
  ELSE LET c1 == cairo_save(c, "inner")
       IN  IF ~verts[i] THEN MarkersDirectLoop(c1, verts, i + 1, pathOk, vector)
           ELSE LET r == fill_and_stroke_exact(pathOk, vector, TRUE)
                IN  IF r.err # None THEN [c |-> SaveN(c1, r.open), err |-> r.err]
                    ELSE MarkersDirectLoop(cairo_restore(c1), verts, i + 1,
                                           pathOk, vector)

\* in: [fault, verts, thr]; the fault "color" is a face colour that to_rgba
\* rejects
draw_markers_outcome(c, f, type, in) ==
  IF in.fault = "gc" THEN Outcome(c, f.snap, InvalidArgument, 0, 0)
  ELSE
    LET c1 == AdditionalContextEnter(c, f)
        old_snap == f.snap
        \* an exception leaves with snap = false: only the last statement
        \* of the function writes old_snap back
        throw(cx, e, ctx, pat) ==
          Outcome(AdditionalContextExit(cx), FALSE, e, ctx, pat)
        pathOk == in.fault # "marker_path"
    IN  IF in.fault \in {"marker_transform", "transform"}
          THEN throw(c1, InvalidArgument, 0, 0)
        ELSE IF in.fault = "color" THEN throw(c1, InvalidArgument, 0, 0)
        ELSE IF StampGridActive(type, in.thr, Len(in.verts))
          THEN \* load_path_exact(cr_, marker_path, &marker_matrix)
               IF ~pathOk THEN throw(c1, InvalidArgument, 0, 0)
               ELSE \* raster_cr = cairo_create(...); first patch:
                    \* cairo_push_group(raster_cr); draw_one_marker(raster_cr)
                    LET r == fill_and_stroke_exact(pathOk, FALSE, FALSE)
                    IN  IF r.err # None THEN throw(c1, r.err, 1, 0)
                        ELSE Outcome(AdditionalContextExit(c1), old_snap, None, 0, 0)
        ELSE LET r == MarkersDirectLoop(c1, in.verts, 1, pathOk,
                                        has_vector_surface(type))
             IN  IF r.err # None THEN throw(r.c, r.err, 0, 0)
                 ELSE Outcome(AdditionalContextExit(r.c), old_snap, None, 0, 0)

---------------------------------------------------------------------------
(* draw_path_collection                                                    *)

CollectionFaults == {"none", "gc", "master_transform", "offsets_shape"}

\* in: [fault, data, n_paths, n_offsets]
draw_path_collection_outcome(c, f, in) ==
  \* hatching, or offset_position == "data": RendererBase.draw_path_collection
  \* of the host framework draws the collection; nothing else happens here
  IF f.hatch # None \/ in.data
    THEN [Outcome(c, f.snap, None, 0, 0) EXCEPT !.fwd = TRUE]
  ELSE IF in.fault = "gc" THEN Outcome(c, f.snap, InvalidArgument, 0, 0)
  ELSE
    LET c1 == AdditionalContextEnter(c, f)
        old_snap == f.snap
    IN  \* if (!n_paths || !n_offsets) return;  after snap = false
        IF in.n_paths = 0 \/ in.n_offsets = 0
          THEN Outcome(AdditionalContextExit(c1), FALSE, None, 0, 0)
        ELSE IF in.fault # "none"
          THEN Outcome(AdditionalContextExit(c1), FALSE, InvalidArgument, 0, 0)
        ELSE Outcome(AdditionalContextExit(c1), old_snap, None, 0, 0)

---------------------------------------------------------------------------
(* The state machine of one GraphicsContextRenderer.                       *)

\* What a call saw on entry.
Entry(op, kind) ==
  [op |-> op, kind |-> kind, err |-> None,
   depth0 |-> Len(states), g0 |-> Len(gstate),
   ctx0 |-> liveCtx, pat0 |-> livePat, gc |-> TRUE, fwd |-> FALSE]

Defined == ~ub /\ Len(states) >= 1

InitGcr ==
  /\ states = <<BaseState>>
  /\ gstate = <<>>
  /\ crStatus = "SUCCESS"
  /\ surfType \in {"image", "vector"}
  /\ liveCtx = 0
  /\ livePat = 0
  /\ ncalls = 0
  /\ expect = <<BaseState>>
  /\ last = [op |-> "init", kind |-> "init", err |-> None, depth0 |-> 1,
             g0 |-> 0, ctx0 |-> 0, pat0 |-> 0, gc |-> TRUE, fwd |-> FALSE]
  /\ ub = FALSE

\* new_gc(): cairo_save(cr_); states.push(states.top())
new_gc_effect(s, c) ==
  [s |-> Append(s, Top(s)), c |-> cairo_save(c, "new_gc")]

\* restore(): states.pop(); cairo_restore(cr_)
restore_effect(s, c) ==
  [s |-> Pop(s), c |-> cairo_restore(c)]

\* The stack of the specification: push copies the top, pop refuses to
\* remove the base.
ExpectPush(e) == Append(e, Top(e))
ExpectPop(e)  == IF Len(e) > 1 THEN Pop(e) ELSE e

new_gc ==
  /\ Defined
  /\ ncalls < MaxCalls
  /\ LET r == new_gc_effect(states, Cr(gstate, crStatus))
     IN  /\ states' = r.s
         /\ gstate' = r.c.g
         /\ crStatus' = r.c.st
  /\ expect' = ExpectPush(expect)
  /\ last' = Entry("new_gc", "stack")
  /\ ncalls' = ncalls + 1
  /\ UNCHANGED <<surfType, liveCtx, livePat, ub>>
  /\ UNCHANGED notGcr

restore ==
  /\ Defined
  /\ ncalls < MaxCalls
  /\ LET r == restore_effect(states, Cr(gstate, crStatus))
     IN  /\ states' = r.s
         /\ gstate' = r.c.g
         /\ crStatus' = r.c.st
  /\ expect' = ExpectPop(expect)
  /\ last' = Entry("restore", "stack")
  /\ ncalls' = ncalls + 1
  /\ UNCHANGED <<surfType, liveCtx, livePat, ub>>
  /\ UNCHANGED notGcr

\* start_filter(): cairo_push_group(cr_); new_gc()
start_filter ==
  /\ Defined
  /\ ncalls < MaxCalls
  /\ LET r == new_gc_effect(states, cairo_push_group(Cr(gstate, crStatus)))
     IN  /\ states' = r.s
         /\ gstate' = r.c.g
         /\ crStatus' = r.c.st
  /\ expect' = ExpectPush(expect)
  /\ last' = Entry("start_filter", "stack")
  /\ ncalls' = ncalls + 1
  /\ UNCHANGED <<surfType, liveCtx, livePat, ub>>
  /\ UNCHANGED notGcr

\* _stop_filter(): restore(); cairo_pop_group(cr_); the group is painted on
\* a new image surface whose context is destroyed before the return
_stop_filter ==
  /\ Defined
  /\ ncalls < MaxCalls
  /\ LET r == restore_effect(states, Cr(gstate, crStatus))
         c == cairo_pop_group(r.c)
     IN  /\ states' = r.s
         /\ gstate' = c.g
         /\ crStatus' = c.st
  /\ expect' = ExpectPop(expect)
  /\ last' = Entry("_stop_filter", "stack")
  /\ ncalls' = ncalls + 1
  /\ UNCHANGED <<surfType, liveCtx, livePat, ub>>
  /\ UNCHANGED notGcr

---------------------------------------------------------------------------
(* Attribute setters: each writes one field of get_additional_state().     *)

set_alpha_frame(f, alpha) == [f EXCEPT !.alpha = alpha]
set_antialiased_frame(f, aa) == [f EXCEPT !.antialias = aa]
set_clip_rectangle_frame(f, rectangle) == [f EXCEPT !.clip_rectangle = rectangle]
\* set_clip_path: matrix_from_transform / load_path_exact may throw before
\* the assignment
set_clip_path_frame(f, in) ==
  IF in.path = None THEN [f EXCEPT !.clip_path = None]
  ELSE IF in.fault # "none" THEN f
  ELSE [f EXCEPT !.clip_path = in.path]
set_hatch_frame(f, hatch) == [f EXCEPT !.hatch = hatch]
set_hatch_color_frame(f, color) == [f EXCEPT !.hatch_color = color]
set_sketch_frame(f, sketch) == [f EXCEPT !.sketch = sketch]
\* set_snap: snap.value_or(true)
set_snap_frame(f, snap) == [f EXCEPT !.snap = (snap = None \/ snap = "true")]

Setter(op, f, g, err) ==
  /\ Defined
  /\ ncalls < MaxCalls
  /\ states' = SetTop(states, f)
  /\ expect' = SetTop(expect, g)
  /\ ncalls' = ncalls + 1
  /\ last' = [Entry(op, "set") EXCEPT !.err = err]
  /\ UNCHANGED <<gstate, crStatus, surfType, liveCtx, livePat, ub>>
  /\ UNCHANGED notGcr

set_alpha ==
  \E a \in {None, "a50"} :
    Setter("set_alpha", set_alpha_frame(Top(states), a),
           set_alpha_frame(Top(expect), a), None)

set_antialiased ==
  \E aa \in AntialiasT \cup BoolT :
    Setter("set_antialiased", set_antialiased_frame(Top(states), aa),
           set_antialiased_frame(Top(expect), aa), None)

set_clip_rectangle ==
  \E r \in {None, "rect"} :
    Setter("set_clip_rectangle", set_clip_rectangle_frame(Top(states), r),
           set_clip_rectangle_frame(Top(expect), r), None)

set_clip_path ==
  \E in \in [path : {None, "path"}, fault : {"none", "transform", "path"}] :
    Setter("set_clip_path", set_clip_path_frame(Top(states), in),
           set_clip_path_frame(Top(expect), in),
           IF in.path # None /\ in.fault # "none" THEN InvalidArgument ELSE None)

set_hatch ==
  \E h \in {None, "/"} :
    Setter("set_hatch", set_hatch_frame(Top(states), h),
           set_hatch_frame(Top(expect), h), None)

set_hatch_color ==
  \E col \in {"rc", "red"} :
    Setter("set_hatch_color", set_hatch_color_frame(Top(states), col),
           set_hatch_color_frame(Top(expect), col), None)

set_sketch ==
  \E sk \in {None, "sketch"} :
    Setter("_sketch", set_sketch_frame(Top(states), sk),
           set_sketch_frame(Top(expect), sk), None)

set_snap ==
  \E sn \in {None, "true", "false"} :
    Setter("set_snap", set_snap_frame(Top(states), sn),
           set_snap_frame(Top(expect), sn), None)

---------------------------------------------------------------------------
(* The draw_* calls.                                                       *)

\* fault = "gc": the gc argument is not the renderer itself
Draw(op, fault, out) ==
  /\ Defined
  /\ ncalls < MaxCalls
  /\ states' = SetTop(states, [Top(states) EXCEPT !.snap = out.snap])
  /\ gstate' = out.c.g
  /\ crStatus' = out.c.st
  /\ liveCtx' = liveCtx + out.ctx
  /\ livePat' = livePat + out.pat
  /\ last' = [Entry(op, "draw") EXCEPT !.err = out.err, !.gc = (fault # "gc"),
                                       !.fwd = out.fwd]
  /\ ncalls' = ncalls + 1
  /\ UNCHANGED <<surfType, expect, ub>>
  /\ UNCHANGED notGcr

draw_gouraud_triangles ==
  \E fault \in GouraudFaults :
    Draw("draw_gouraud_triangles", fault,
         ScopedDraw(Cr(gstate, crStatus), Top(states), fault))

draw_image ==
  \E fault \in ImageFaults :
    Draw("draw_image", fault,
         ScopedDraw(Cr(gstate, crStatus), Top(states), fault))

draw_quad_mesh ==
  \E fault \in QuadMeshFaults :
    Draw("draw_quad_mesh", fault,
         ScopedDraw(Cr(gstate, crStatus), Top(states), fault))

draw_text ==
  \E fault \in TextFaults :
    Draw("draw_text", fault,
         ScopedDraw(Cr(gstate, crStatus), Top(states), fault))

draw_path ==
  \E in \in [fault : PathFaults, fc : BOOLEAN] :
    Draw("draw_path", in.fault,
         draw_path_outcome(Cr(gstate, crStatus), Top(states), in))

draw_markers ==
  \E in \in [fault : MarkersFaults, verts : FiniteFlags, thr : Thresholds] :
    Draw("draw_markers", in.fault,
         draw_markers_outcome(Cr(gstate, crStatus), Top(states), surfType, in))

draw_path_collection ==
  \E in \in [fault : CollectionFaults, data : BOOLEAN, n_paths : 0..1,
             n_offsets : 0..1] :
    Draw("draw_path_collection", in.fault,
         draw_path_collection_outcome(Cr(gstate, crStatus), Top(states), in))

\* With the base frame gone, std::stack::top() and pop() are undefined: the
\* next call of any kind crashes or goes on with whatever it reads.
UndefinedBehaviour ==
  /\ ~ub
  /\ Len(states) = 0
  /\ ncalls < MaxCalls
  /\ ncalls' = ncalls + 1
  /\ ub' = TRUE
  /\ \E outcome \in {"crash", "garbage"} :
       last' = [Entry("any", "ub") EXCEPT !.err = outcome]
  /\ UNCHANGED <<states, gstate, crStatus, surfType, liveCtx, livePat, expect>>
  /\ UNCHANGED notGcr

NextGcr ==
  \/ new_gc \/ restore \/ start_filter \/ _stop_filter
  \/ set_alpha \/ set_antialiased \/ set_clip_rectangle \/ set_clip_path
  \/ set_hatch \/ set_hatch_color \/ set_sketch \/ set_snap
  \/ draw_gouraud_triangles \/ draw_image \/ draw_quad_mesh \/ draw_text
  \/ draw_path \/ draw_markers \/ draw_path_collection
  \/ UndefinedBehaviour

---------------------------------------------------------------------------
(* The pen of cr_: set_capstyle, set_joinstyle, set_dashes, set_foreground *)
(* write cairo's own graphics state at once; the alpha of the state stack  *)
(* is applied when a draw call enters its AdditionalContext.               *)

\* style setter and draw calls in one behaviour
MaxStyleCalls == 4

\* the names given to set_capstyle and set_joinstyle
CapStyles  == {"butt", "round", "projecting", "square"}
JoinStyles == {"miter", "round", "bevel", "mitre"}

\* the colours given to set_foreground, as to_rgba returns them
Colours == {[c |-> "red", a |-> "a100"], [c |-> "blue", a |-> "a25"]}

\* cairo's default source: opaque black
DefaultSource == [c |-> "black", a |-> "a100"]

\* cairo_set_dash(cr_, nullptr, 0, 0)
NoDash == [list |-> None, offset |-> "0"]

NoStyleCall == [op |-> "init", err |-> None, bad |-> FALSE, alpha |-> None,
                cap |-> "BUTT", join |-> "ROUND", dash |-> NoDash]

\* the pen after the constructor: cairo's defaults, and CAIRO_LINE_JOIN_ROUND
NewPen ==
  [cap |-> "BUTT", join |-> "ROUND", dash |-> NoDash,
   source |-> DefaultSource, fg |-> DefaultSource, scope |-> DefaultSource,
   n |-> 0, last |-> NoStyleCall]

\* what a style call saw on entry
StyleEntry(p, op) ==
  [op |-> op, err |-> None, bad |-> FALSE, alpha |-> Top(states).alpha,
   cap |-> p.cap, join |-> p.join, dash |-> p.dash]

\* set_capstyle(capstyle)
set_capstyle_pen(p, capstyle) ==
  IF capstyle = "butt" THEN [p EXCEPT !.cap = "BUTT"]
  ELSE IF capstyle = "round" THEN [p EXCEPT !.cap = "ROUND"]
  ELSE IF capstyle = "projecting" THEN [p EXCEPT !.cap = "SQUARE"]
  ELSE [p EXCEPT !.last.err = InvalidArgument]

\* set_joinstyle(joinstyle)
set_joinstyle_pen(p, joinstyle) ==
  IF joinstyle = "miter" THEN [p EXCEPT !.join = "MITER"]
  ELSE IF joinstyle = "round" THEN [p EXCEPT !.join = "ROUND"]
  ELSE IF joinstyle = "bevel" THEN [p EXCEPT !.join = "BEVEL"]
  ELSE [p EXCEPT !.last.err = InvalidArgument]

\* set_dashes with the no-dash branch taken before the offset is looked at
set_dashes_reset(p, dash_offset, dash_list) ==
  IF dash_list # None /\ dash_offset # None
    THEN [p EXCEPT !.dash = [list |-> dash_list, offset |-> dash_offset]]
  ELSE [p EXCEPT !.dash = NoDash,
                 !.last.err = IF dash_list # None THEN InvalidArgument ELSE None]

\* set_dashes(dash_offset, dash_list)
set_dashes_pen(p, dash_offset, dash_list) ==
  IF dash_list # None
    THEN IF dash_offset = None THEN [p EXCEPT !.last.err = InvalidArgument]
         ELSE [p EXCEPT !.dash = [list |-> dash_list, offset |-> dash_offset]]
  ELSE [p EXCEPT !.dash = NoDash]

\* get_rgba(): the source of cr_, its alpha replaced by the state's alpha
get_rgba(source, alpha) ==
  [c |-> source.c, a |-> IF alpha # None THEN alpha ELSE source.a]

\* set_foreground(fg): to_rgba(fg), the alpha replaced by the state's alpha,
\* goes into the source of cr_
set_foreground_pen(p, fg, alpha) ==
  [p EXCEPT !.source = [c |-> fg.c, a |-> IF alpha # None THEN alpha ELSE fg.a],
            !.fg = fg]

\* A style call: p is the pen with the call's entry record in last.
StyleCall(p) ==
  /\ Defined
  /\ pen.n < MaxStyleCalls
  /\ pen' = [p EXCEPT !.n = pen.n + 1]
  /\ UNCHANGED <<states, gstate, crStatus, surfType, liveCtx, livePat, ncalls,
                 expect, last, ub, width_, height_, surf, raw, region, rlast,
                 ndraw, txt, lp, coll>>

set_capstyle ==
  \E capstyle \in CapStyles :
    StyleCall(set_capstyle_pen(
      [pen EXCEPT !.last = [StyleEntry(pen, "set_capstyle") EXCEPT
                              !.bad = capstyle \notin {"butt", "round", "projecting"}]],
      capstyle))

set_joinstyle ==
  \E joinstyle \in JoinStyles :
    StyleCall(set_joinstyle_pen(
      [pen EXCEPT !.last = [StyleEntry(pen, "set_joinstyle") EXCEPT
                              !.bad = joinstyle \notin {"miter", "round", "bevel"}]],
      joinstyle))

set_dashes ==
  \E dash_offset \in {None, "3"}, dash_list \in {None, "dashed"} :
    StyleCall(set_dashes_pen(
      [pen EXCEPT !.last = [StyleEntry(pen, "set_dashes") EXCEPT
                              !.bad = (dash_list # None /\ dash_offset = None)]],
      dash_offset, dash_list))

set_foreground ==
  \E fg \in Colours :
    StyleCall(set_foreground_pen(
      [pen EXCEPT !.last = StyleEntry(pen, "set_foreground")],
      fg, Top(states).alpha))

\* A draw call enters its AdditionalContext: cairo_save, then the source is
\* set to get_rgba(); the destructor's cairo_restore brings the source back.
additional_context ==
  StyleCall([pen EXCEPT !.last = StyleEntry(pen, "additional_context"),
                        !.scope = get_rgba(pen.source, Top(states).alpha)])

NextStyle ==
  \/ set_alpha
  \/ set_capstyle \/ set_joinstyle \/ set_dashes \/ set_foreground
  \/ additional_context

---------------------------------------------------------------------------
(* The variables of the other components, at rest.                         *)

\* no Region has been returned yet
NoRegion == [x0 |-> 0, y0 |-> 0, width |-> 0, height |-> 0, buf |-> <<>>,
             at |-> <<>>, live |-> FALSE]

NoRegionCall == [op |-> "init", err |-> None, returned |-> FALSE, reads |-> 0,
                 inside |-> TRUE, pre |-> <<>>]

IdleRegion ==
  /\ width_ = 0 /\ height_ = 0 /\ raw = <<>> /\ region = NoRegion
  /\ surf = [width |-> 0, height |-> 0, stride |-> 0]
  /\ rlast = NoRegionCall /\ ndraw = 0

IdleStyle == pen = NewPen
IdleText == txt = [pc |-> "idle"]
IdleLoad == lp = [pc |-> "idle"]
IdleColl == coll = [pc |-> "idle"]

Init == InitGcr /\ IdleRegion /\ IdleStyle /\ IdleText /\ IdleLoad /\ IdleColl

Next == NextGcr

Spec == Init /\ [][Next]_vars

---------------------------------------------------------------------------
(* Claims about the state stack and the draw calls (specification Spec).   *)

\* C1: whenever the renderer is back at a stack depth, every frame of the
\* state stack holds what new_gc (copy the top), the setters called on that
\* frame and restore alone would have left in it: no draw_* call, on any of
\* its exit paths, changes a field (the snap flag included) of a frame.
C1_StateStackBalance == Defined => states = expect

\* C2: after a draw_* call returned or raised, the cairo save/restore depth
\* and the state stack depth are what they were when the call was entered.
C2_DrawKeepsDepths ==
  last.kind = "draw" => Len(states) = last.depth0 /\ Len(gstate) = last.g0

\* C3: the state stack always holds the base frame, and restore() on the
\* base frame alone fails and changes neither the stack nor the surface.
C3_BaseFrameStays ==
  /\ Len(states) >= 1
  /\ (last.op = "restore" /\ last.depth0 = 1) =>
       /\ last.err # None
       /\ Len(states) = 1
       /\ Len(gstate) = last.g0
       /\ crStatus = "SUCCESS"

\* The cairo_save calls of new_gc that no cairo_restore has undone yet.
OutstandingSaves == Cardinality({i \in 1..Len(gstate) : gstate[i] = "new_gc"})

\* C4: the number of frames above the base frame is the number of
\* outstanding cairo_save calls made by new_gc / start_filter.
C4_FramesMirrorSaves == ~ub => Len(states) - 1 = OutstandingSaves

\* C9: when draw_markers has returned or raised, every offscreen context
\* and every stamp pattern it created has been destroyed.
C9_MarkersReleaseAll ==
  last.op = "draw_markers" => liveCtx = last.ctx0 /\ livePat = last.pat0

\* C12: a draw_* call whose gc argument is not the renderer itself raises
\* Invalid-Argument and draws nothing: it is not handed to another
\* implementation, and it leaves the cairo stack, the state stack and the
\* native handles as they were, whatever the hatch and the offset position.
C12_GcMismatchRejected ==
  (last.kind = "draw" /\ ~last.gc) =>
     /\ last.err = InvalidArgument
     /\ ~last.fwd
     /\ Len(gstate) = last.g0 /\ Len(states) = last.depth0
     /\ liveCtx = last.ctx0 /\ livePat = last.pat0

---------------------------------------------------------------------------
(* Claims about the pen (specification SpecStyle).                         *)

InitSpecStyle == InitGcr /\ IdleRegion /\ IdleStyle /\ IdleText /\ IdleLoad /\ IdleColl

SpecStyle == InitSpecStyle /\ [][NextStyle]_vars

\* C13: set_capstyle and set_joinstyle with a name that is not one of their
\* three names, and set_dashes with a dash list and no dash offset, raise
\* Invalid-Argument and leave the cap, the join and the dash of cr_ as they
\* were when the call was entered.
C13_BadStyleRejected ==
  pen.last.bad =>
    /\ pen.last.err = InvalidArgument
    /\ pen.cap = pen.last.cap
    /\ pen.join = pen.last.join
    /\ pen.dash = pen.last.dash

\* C13 happens: set_dashes without an offset was refused on a pen whose cap,
\* join and dash had all been set to something else than their defaults.
C13_Witness ==
  /\ pen.last.op = "set_dashes" /\ pen.last.bad
  /\ pen.last.err = InvalidArgument
  /\ pen.cap = "SQUARE" /\ pen.join = "BEVEL" /\ pen.dash.list = "dashed"

\* C16: the colour a draw call applies in its scope is the foreground colour
\* last set, with the alpha of the top state if it has one and with the
\* colour's own alpha otherwise, whatever the order of the set_alpha and
\* set_foreground calls before.
C16_ScopeAlpha ==
  pen.last.op = "additional_context" =>
    /\ pen.scope.c = pen.fg.c
    /\ pen.scope.a = IF pen.last.alpha # None THEN pen.last.alpha
                     ELSE pen.fg.a

---------------------------------------------------------------------------
(* get_text_width_height_descent (specification SpecText).  Lengths are    *)
(* integers.  Plain text is measured by cairo_glyph_extents: the ink box   *)
(* has a height >= 0 and its top is at y_bearing from the baseline, y      *)
(* growing downwards.  Math text comes with the rectangle                  *)
(* {xmin_, ymin_, xmax_ - xmin_, ymax_ - ymin_} that MathtextBackend       *)
(* recorded, ymin_ <= 0 <= ymax_, and the height given to set_canvas_size  *)
(* as the offset of the baseline.  ismath == "TeX" is handed to            *)
(* RendererBase and is not part of the model.                              *)

\* the largest length of an extent
TextMax == 3

\* cairo_text_extents_t of plain text
GlyphExtents ==
  [width : 0..1, height : 0..TextMax, y_bearing : (-TextMax)..TextMax]

\* the MATHTEXT_RECTANGLE of a recording surface
MathRectangles ==
  {[width |-> 1, y |-> ymin, height |-> ymax - ymin] :
     ymin \in (-TextMax)..0, ymax \in 0..TextMax}

\* {extents.width, extents.height, extents.height + extents.y_bearing}
text_width_height_descent(extents) ==
  [width |-> extents.width, height |-> extents.height,
   descent |-> extents.height + extents.y_bearing]

\* {extents.width, extents.height, extents.y + extents.height - to_baseline}
math_width_height_descent(extents, to_baseline) ==
  [width |-> extents.width, height |-> extents.height,
   descent |-> extents.y + extents.height - to_baseline]

notText == <<states, gstate, crStatus, surfType, liveCtx, livePat, ncalls,
             expect, last, ub, width_, height_, surf, raw, region, rlast,
             ndraw, pen, lp, coll>>

get_text_width_height_descent ==
  /\ \/ \E extents \in GlyphExtents :
          txt' = [pc |-> "done", ismath |-> FALSE, extents |-> extents,
                  to_baseline |-> 0,
                  whd |-> text_width_height_descent(extents)]
     \/ \E extents \in MathRectangles, to_baseline \in 0..TextMax :
          txt' = [pc |-> "done", ismath |-> TRUE, extents |-> extents,
                  to_baseline |-> to_baseline,
                  whd |-> math_width_height_descent(extents, to_baseline)]
  /\ UNCHANGED notText

InitSpecText == InitGcr /\ IdleRegion /\ IdleStyle /\ IdleText /\ IdleLoad /\ IdleColl

NextText == get_text_width_height_descent

SpecText == InitSpecText /\ [][NextText]_vars

\* C15: for plain and for math text, the descent that
\* get_text_width_height_descent returns is >= 0 and the height it returns
\* is >= the descent, whatever the glyph extents, or the recorded rectangle
\* and the baseline offset, are.
C15_DescentInHeight ==
  txt.pc = "done" =>
    /\ txt.whd.descent >= 0
    /\ txt.whd.height >= txt.whd.descent

---------------------------------------------------------------------------
(* copy_from_bbox / restore_region (specification SpecRegion).             *)
(* The surface is SurfWidth x SurfHeight pixels of 4 bytes; its rows are   *)
(* stride bytes apart, with stride >= 4 * width.  A byte of raw is 0 until *)
(* something is drawn on its pixel.  Byte addresses are 0-based as in the  *)
(* code; raw[a + 1] is the byte at address a.                              *)

SurfWidth  == 2
SurfHeight == 2
\* drawing steps on the pixel buffer in one behaviour
MaxDraws == 2

\* a bbox coordinate is a double, given here in halves: h stands for h / 2
FloorHalf(h) == h \div 2
CeilHalf(h)  == -((-h) \div 2)

\* the <<low, high>> pairs, in halves, a bbox is called with along one axis
\* of extent n
AxisPairs(n) ==
  {<<0, 2 * n>>, <<1, 3>>, <<2, 2>>, <<2 * n - 1, 2 * n>>,
   <<-1, 2>>, <<2, 2 * n + 1>>, <<2 * n, 2>>}

\* The rectangle of the pixel columns x0 .. x1 - 1 and rows y0 .. y1 - 1 is
\* a (possibly empty) rectangle of the target's width_ x height_ pixels.
InsideTarget(x0, x1, y0, y1) ==
  /\ x0 \in 0..width_ /\ x1 \in x0..width_
  /\ y0 \in 0..height_ /\ y1 \in y0..height_

\* bbox_valid without the upper bounds
bbox_valid_lower(x0, x1, y0, y1, w, h) ==
  /\ 0 <= x0 /\ x0 <= x1
  /\ 0 <= y0 /\ y0 <= y1

\* the test of copy_from_bbox on the floored / ceiled rectangle
bbox_valid(x0, x1, y0, y1, w, h) ==
  /\ 0 <= x0 /\ x0 <= x1 /\ x1 <= w
  /\ 0 <= y0 /\ y0 <= y1 /\ y1 <= h

\* row_in_raw without the 4 bytes per pixel
row_in_raw_bytes(y, stride, x0) == y * stride + x0

\* raw + y * stride + 4 * x0
row_in_raw(y, stride, x0) == y * stride + 4 * x0

\* buf.get() + (y - y0) * 4 * width
row_in_buf(y, y0, width) == (y - y0) * 4 * width

\* a byte read outside the source is indeterminate
Indeterminate == -1

\* std::memcpy(dst + doff, src + soff, n)
memcpy(dst, doff, src, soff, n) ==
  [a \in 1..Len(dst) |->
     IF a - 1 >= doff /\ a - 1 < doff + n
       THEN LET b == soff + (a - 1 - doff) + 1
            IN  IF b \in 1..Len(src) THEN src[b] ELSE Indeterminate
       ELSE dst[a]]

\* the loop of copy_from_bbox over the rows y .. y1 - 1
RECURSIVE copy_rows(_, _, _, _, _, _, _, _)
copy_rows(buf, rawb, stride, x0, y0, width, y, y1) ==
  IF y >= y1 THEN buf
  ELSE copy_rows(memcpy(buf, row_in_buf(y, y0, width), rawb,
                        row_in_raw(y, stride, x0), 4 * width),
                 rawb, stride, x0, y0, width, y + 1, y1)

\* the loop of restore_region over the rows y .. y1 - 1
RECURSIVE restore_rows(_, _, _, _, _, _, _, _)
restore_rows(rawb, buf, stride, x0, y0, width, y, y1) ==
  IF y >= y1 THEN rawb
  ELSE restore_rows(memcpy(rawb, row_in_raw(y, stride, x0), buf,
                           row_in_buf(y, y0, width), 4 * width),
                    buf, stride, x0, y0, width, y + 1, y1)

\* every memcpy of one of the two loops is inside raw and buf
rows_defined(rawb, nbuf, stride, x0, y0, width, height) ==
  \A y \in y0..(y0 + height - 1) :
    /\ row_in_raw(y, stride, x0) >= 0
    /\ row_in_raw(y, stride, x0) + 4 * width <= Len(rawb)
    /\ row_in_buf(y, y0, width) + 4 * width <= nbuf

\* the addresses of the bytes of the pixels of a rectangle
RectAddrs(stride, x0, y0, width, height) ==
  {y * stride + 4 * x + k :
     y \in y0..(y0 + height - 1), x \in x0..(x0 + width - 1), k \in 0..3}

\* the bytes of raw at the pixels of a rectangle, by address
BytesAt(rawb, stride, x0, y0, width, height) ==
  [a \in RectAddrs(stride, x0, y0, width, height) |->
     IF a + 1 \in 1..Len(rawb) THEN rawb[a + 1] ELSE Indeterminate]

\* new uint8_t[n]
new_buf(n) == [j \in 1..n |-> Indeterminate]

InitRegion ==
  /\ surfType \in {"image", "vector"}
  /\ width_ = SurfWidth /\ height_ = SurfHeight
  /\ \E pad \in 0..1 :
       surf = [width |-> SurfWidth, height |-> SurfHeight,
               stride |-> 4 * (SurfWidth + pad)]
  /\ raw = [a \in 1..(IF surfType = "image" THEN surf.stride * surf.height ELSE 0)
              |-> 0]
  /\ region = NoRegion
  /\ rlast = NoRegionCall
  /\ ndraw = 0

\* Any drawing call that writes the pixel (x, y) of the image surface.
region_draw ==
  /\ surfType = "image"
  /\ ndraw < MaxDraws
  /\ \E x \in 0..(surf.width - 1), y \in 0..(surf.height - 1) :
       raw' = memcpy(raw, row_in_raw(y, surf.stride, x), <<1, 2, 3, 4>>, 0, 4)
  /\ ndraw' = ndraw + 1
  /\ rlast' = [NoRegionCall EXCEPT !.op = "draw"]
  /\ UNCHANGED <<width_, height_, surf, region>>
  /\ UNCHANGED notRegion

copy_from_bbox ==
  /\ \E xs \in AxisPairs(SurfWidth), ys \in AxisPairs(SurfHeight) :
       LET x0 == FloorHalf(xs[1])
           x1 == CeilHalf(xs[2])
           y0 == FloorHalf(ys[1])
           y1 == CeilHalf(ys[2])
           width == x1 - x0
           height == y1 - y0
           call == [NoRegionCall EXCEPT !.op = "copy_from_bbox",
                                        !.inside = InsideTarget(x0, x1, y0, y1)]
       IN  IF ~bbox_valid(x0, x1, y0, y1, width_, height_)
             THEN /\ rlast' = [call EXCEPT !.err = InvalidArgument]
                  /\ UNCHANGED region
           ELSE IF surfType # "image"
             THEN /\ rlast' = [call EXCEPT !.err = RuntimeError]
                  /\ UNCHANGED region
           ELSE IF ~rows_defined(raw, 4 * width * height, surf.stride, x0, y0,
                                 width, height)
             THEN \* a read outside the surface's bytes: a crash, or a Region
                  \* of indeterminate bytes
                  \E crash \in BOOLEAN :
                    /\ rlast' = [call EXCEPT !.err = "undefined",
                                             !.returned = ~crash,
                                             !.reads = 4 * width * height]
                    /\ region' = IF crash THEN region
                                 ELSE [x0 |-> x0, y0 |-> y0, width |-> width,
                                       height |-> height,
                                       buf |-> new_buf(4 * width * height),
                                       at |-> BytesAt(raw, surf.stride, x0, y0,
                                                      width, height),
                                       live |-> TRUE]
           ELSE /\ rlast' = [call EXCEPT !.returned = TRUE,
                                         !.reads = 4 * width * height]
                /\ region' = [x0 |-> x0, y0 |-> y0, width |-> width,
                              height |-> height,
                              buf |-> copy_rows(new_buf(4 * width * height),
                                                raw, surf.stride, x0, y0,
                                                width, y0, y1),
                              at |-> BytesAt(raw, surf.stride, x0, y0, width,
                                             height),
                              live |-> TRUE]
  /\ UNCHANGED <<width_, height_, surf, raw, ndraw>>
  /\ UNCHANGED notRegion

restore_region ==
  /\ region.live
  /\ LET call == [NoRegionCall EXCEPT !.op = "restore_region", !.pre = raw]
     IN  IF surfType # "image"
           THEN /\ rlast' = [call EXCEPT !.err = RuntimeError]
                /\ UNCHANGED raw
         ELSE IF ~rows_defined(raw, Len(region.buf), surf.stride, region.x0,
                               region.y0, region.width, region.height)
           THEN \* a write outside the surface's bytes
                /\ rlast' = [call EXCEPT !.err = "undefined"]
                /\ UNCHANGED raw
         ELSE /\ rlast' = call
              /\ raw' = restore_rows(raw, region.buf, surf.stride, region.x0,
                                     region.y0, region.width,
                                     region.y0, region.y0 + region.height)
  /\ UNCHANGED <<width_, height_, surf, region, ndraw>>
  /\ UNCHANGED notRegion

NextRegion == region_draw \/ copy_from_bbox \/ restore_region

InitSpecRegion ==
  /\ InitRegion
  /\ states = <<BaseState>> /\ gstate = <<>> /\ crStatus = "SUCCESS"
  /\ liveCtx = 0 /\ livePat = 0 /\ ncalls = 0 /\ expect = <<BaseState>>
  /\ ub = FALSE
  /\ last = [op |-> "init", kind |-> "init", err |-> None, depth0 |-> 1,
             g0 |-> 0, ctx0 |-> 0, pat0 |-> 0, gc |-> TRUE, fwd |-> FALSE]
  /\ IdleStyle /\ IdleText /\ IdleLoad /\ IdleColl

SpecRegion == InitSpecRegion /\ [][NextRegion]_vars

---------------------------------------------------------------------------
(* Claims about region capture and restore (specification SpecRegion).     *)

\* the pixel bytes of the rectangle of the last Region
RegionAddrs ==
  RectAddrs(surf.stride, region.x0, region.y0, region.width, region.height)

\* The Region's buffer is packed: byte k of the pixel in column col and row
\* row of the rectangle is at 4 * (row * width + col) + k, and holds what
\* that byte of the surface held at capture time.
RegionPacked ==
  /\ Len(region.buf) = 4 * region.width * region.height
  /\ \A row \in 0..(region.height - 1), col \in 0..(region.width - 1), k \in 0..3 :
       region.buf[4 * (row * region.width + col) + k + 1] =
         region.at[(region.y0 + row) * surf.stride + 4 * (region.x0 + col) + k]

\* C5: on a raster target, after restore_region of the Region that
\* copy_from_bbox returned for an in-bounds rectangle R, whatever was drawn in
\* between, every byte of a pixel inside R is what it was at capture time and
\* every other byte of the surface is what it was before the restore; the
\* Region's buffer is packed with row stride 4 * width(R), whatever the
\* stride of the surface.
C5_RegionRoundTrip ==
  /\ region.live => RegionPacked
  /\ (rlast.op = "restore_region" /\ rlast.err = None) =>
       \A a \in 0..(Len(raw) - 1) :
         raw[a + 1] = IF a \in RegionAddrs THEN region.at[a]
                      ELSE rlast.pre[a + 1]

\* C5 happens: a restore changed a pixel of the rectangle that was drawn on
\* after the capture; the surface's stride is not the buffer's row stride,
\* something is drawn outside the rectangle, and the rectangle does not
\* start at the origin.
C5_Witness ==
  /\ rlast.op = "restore_region" /\ rlast.err = None
  /\ region.x0 > 0 /\ region.y0 > 0 /\ region.width > 0 /\ region.height > 0
  /\ surf.stride # 4 * region.width
  /\ \E a \in RegionAddrs : rlast.pre[a + 1] # raw[a + 1]
  /\ \E a \in 0..(Len(raw) - 1) : a \notin RegionAddrs /\ raw[a + 1] # 0

\* C10: copy_from_bbox with a floored / ceiled rectangle that is not inside
\* the target raises Invalid-Argument, returns no Region and reads no byte
\* of the surface.
C10_InvalidBboxRejected ==
  (rlast.op = "copy_from_bbox" /\ ~rlast.inside) =>
     /\ rlast.err = InvalidArgument
     /\ ~rlast.returned
     /\ rlast.reads = 0

\* C10 happens: an out-of-bounds rectangle was refused on an image surface
\* on which something had been drawn and an earlier Region is still held.
C10_Witness ==
  /\ rlast.op = "copy_from_bbox" /\ ~rlast.inside
  /\ rlast.err = InvalidArgument
  /\ surfType = "image" /\ region.live
  /\ \E a \in 1..Len(raw) : raw[a] # 0

\* C11: on a target that is not an image surface, copy_from_bbox and
\* restore_region raise the unsupported-operation error (runtime_error)
\* whatever their argument is, and the surface keeps its bytes.
C11_VectorUnsupported ==
  (surfType # "image" /\ rlast.op \in {"copy_from_bbox", "restore_region"}) =>
     /\ rlast.err = RuntimeError
     /\ ~rlast.returned
     /\ raw = <<>>

---------------------------------------------------------------------------
(* load_path_exact on a path without codes (specification SpecLoad).       *)
(* A device coordinate is a rational n / d in lowest terms with d > 0, or  *)
(* a NaN.  The arithmetic of the model is exact; the box [min, max] of the *)
(* code is [-(1 << 22), 1 << 22], scaled down to [-BoxMax, BoxMax] to keep *)
(* the products of the intersection formulas inside TLC's integers.        *)

\* half the side of the clipping box
BoxMax == 4
\* vertices of one path
MaxPathLen == 2
\* iterations after which the clipping loop counts as not terminating
MaxClipIters == 4

Abs(a) == IF a < 0 THEN -a ELSE a

RECURSIVE GCD(_, _)
GCD(a, b) == IF b = 0 THEN a ELSE GCD(b, a % b)

Q(n, d) ==
  LET g == GCD(Abs(n), Abs(d))
      sgn == IF d < 0 THEN -1 ELSE 1
  IN  [k |-> "fin", n |-> (sgn * n) \div g, d |-> (sgn * d) \div g]

QInt(i) == Q(i, 1)
NaN == [k |-> "nan", n |-> 0, d |-> 1]

QAdd(a, b) == Q(a.n * b.d + b.n * a.d, a.d * b.d)
QSub(a, b) == Q(a.n * b.d - b.n * a.d, a.d * b.d)
QMul(a, b) == Q(a.n * b.n, a.d * b.d)
QDiv(a, b) == Q(a.n * b.d, a.d * b.n)
QLt(a, b)  == a.n * b.d < b.n * a.d
QLe(a, b)  == a.n * b.d <= b.n * a.d

\* a test that takes every coordinate for finite
isfinite_always(c) == TRUE

\* std::isfinite
isfinite(c) == c.k = "fin"

\* std::floor and std::round (halves away from zero)
QFloor(a) == a.n \div a.d
QRound(a) ==
  IF a.n >= 0 THEN (2 * a.n + a.d) \div (2 * a.d)
  ELSE -((2 * (-a.n) + a.d) \div (2 * a.d))

\* std::floor(x) + 1.5
snap_half_next(x) == Q(2 * QFloor(x) + 3, 2)

\* the two snappers
snap_half(x)  == Q(2 * QFloor(x) + 1, 2)
snap_round(x) == QInt(QRound(x))

\* auto const min = double(-(1 << 22)), max = double(1 << 22)
min == QInt(-BoxMax)
max == QInt(BoxMax)

\* outcode: the set of the sides of the box that (x, y) is beyond
outcode(x, y) ==
  (IF QLt(x, min) THEN {"LEFT"} ELSE IF QLt(max, x) THEN {"RIGHT"} ELSE {})
  \cup
  (IF QLt(y, min) THEN {"BOTTOM"} ELSE IF QLt(max, y) THEN {"TOP"} ELSE {})

\* a + (b - a) * (c - a2) / (b2 - a2) with the operands of cross swapped
cross_from_end(a, b, a2, b2, c) ==
  QAdd(b, QDiv(QMul(QSub(b, a), QSub(c, a2)), QSub(b2, a2)))

\* x_prev + (x - x_prev) * (c - y_prev) / (y - y_prev), and the same for y:
\* the other coordinate of the point where the segment meets the line at c
cross(a, b, a2, b2, c) ==
  QAdd(a, QDiv(QMul(QSub(b, a), QSub(c, a2)), QSub(b2, a2)))

\* The while (true) loop of the Cohen-Sutherland clipping; done is FALSE if
\* it has not left the loop after fuel iterations.
RECURSIVE clip_loop(_, _, _, _, _, _)
clip_loop(x_prev, y_prev, x, y, update_prev, fuel) ==
  LET code0 == outcode(x_prev, y_prev)
      code1 == outcode(x, y)
      res(accept, done) ==
        [accept |-> accept, update_prev |-> update_prev, done |-> done,
         x_prev |-> x_prev, y_prev |-> y_prev, x |-> x, y |-> y]
  IN  IF code0 \cup code1 = {} THEN res(TRUE, TRUE)
      ELSE IF code0 \cap code1 # {} THEN res(FALSE, TRUE)
      ELSE IF fuel = 0 THEN res(FALSE, FALSE)
      ELSE
        LET code == IF code0 # {} THEN code0 ELSE code1
            c == IF "TOP" \in code THEN <<cross(x_prev, x, y_prev, y, max), max>>
                 ELSE IF "BOTTOM" \in code
                   THEN <<cross(x_prev, x, y_prev, y, min), min>>
                 ELSE IF "RIGHT" \in code
                   THEN <<max, cross(y_prev, y, x_prev, x, max)>>
                 ELSE <<min, cross(y_prev, y, x_prev, x, min)>>
        IN  IF code = code0
              THEN clip_loop(c[1], c[2], x, y, TRUE, fuel - 1)
              ELSE clip_loop(x_prev, y_prev, c[1], c[2], update_prev, fuel - 1)

\* device coordinates of the vertices of the model's paths
CoordVals ==
  {QInt(-(BoxMax + 1)), QInt(-BoxMax), Q(1, 2), QInt(BoxMax), QInt(BoxMax + 1)}

\* the vertices after cairo_matrix_transform_point
Vertices == [x : CoordVals, y : CoordVals] \cup {[x |-> NaN, y |-> Q(1, 2)]}

\* cairo_get_line_width(cr)
LineWidths == {QInt(1), QInt(2)}

\* snapper: (lw < 1) || (std::lround(lw) % 2 == 1) ? floor + .5 : round
snapper(lw, x) ==
  IF QLt(lw, QInt(1)) \/ QRound(lw) % 2 = 1 THEN snap_half(x) ELSE snap_round(x)

PathData(op, x, y) == [op |-> op, x |-> x, y |-> y]

NoSeg == [has |-> FALSE, p0 |-> [x |-> NaN, y |-> NaN],
          p1 |-> [x |-> NaN, y |-> NaN]]

\* One iteration of the main loop on the vertex v; l holds prev (<<>> or
\* <<point>>), path_data (out) and the line width, snap is the snap control.
load_path_exact_iter(l, v, snap) ==
  IF ~(isfinite(v.x) /\ isfinite(v.y))
    THEN [l EXCEPT !.prev = <<>>, !.seg = NoSeg, !.i = @ + 1]
  ELSE IF l.prev = <<>>
    THEN [l EXCEPT !.prev = <<v>>, !.seg = NoSeg, !.i = @ + 1,
                   !.out = Append(@, PathData("MOVE_TO", v.x, v.y))]
  ELSE
    LET c == clip_loop(l.prev[1].x, l.prev[1].y, v.x, v.y, FALSE, MaxClipIters)
        out1 == IF c.accept /\ c.update_prev
                  THEN Append(l.out, PathData("MOVE_TO", c.x_prev, c.y_prev))
                  ELSE l.out
        header == IF c.accept THEN "LINE_TO" ELSE "MOVE_TO"
        snapped == snap /\ (c.x = c.x_prev \/ c.y = c.y_prev)
        out2 == IF snapped
                  THEN [out1 EXCEPT ![Len(out1)] =
                          PathData(@.op, snapper(l.lw, c.x_prev),
                                   snapper(l.lw, c.y_prev))]
                  ELSE out1
        point == IF snapped
                   THEN PathData(header, snapper(l.lw, c.x), snapper(l.lw, c.y))
                   ELSE PathData(header, c.x, c.y)
    IN  IF ~c.done THEN [l EXCEPT !.pc = "stuck"]
        ELSE [l EXCEPT !.prev = <<v>>, !.i = @ + 1,
                       !.seg = [has |-> TRUE, p0 |-> l.prev[1], p1 |-> v],
                       !.out = Append(out2, point)]

\* snap = (!has_vector_surface(cr)) && get_additional_state(cr).snap
snap_control == ~has_vector_surface(surfType) /\ Top(states).snap

notLoad == <<states, gstate, crStatus, surfType, liveCtx, livePat, ncalls,
             expect, last, ub, width_, height_, surf, raw, region, rlast,
             ndraw, pen, txt, coll>>

InitSpecLoad ==
  /\ surfType \in {"image", "vector"}
  /\ \E sn \in BOOLEAN : states = <<[BaseState EXCEPT !.snap = sn]>>
  /\ expect = states
  /\ gstate = <<>> /\ crStatus = "SUCCESS"
  /\ liveCtx = 0 /\ livePat = 0 /\ ncalls = 0 /\ ub = FALSE
  /\ last = [op |-> "init", kind |-> "init", err |-> None, depth0 |-> 1,
             g0 |-> 0, ctx0 |-> 0, pat0 |-> 0, gc |-> TRUE, fwd |-> FALSE]
  /\ IdleRegion /\ IdleStyle /\ IdleText /\ IdleColl
  /\ \E lw \in LineWidths :
       lp = [pc |-> "loop", lw |-> lw, prev |-> <<>>, out |-> <<>>, i |-> 0,
             seg |-> NoSeg]

\* for (auto i = start; i < stop; ++i) { ... }
LoadVertex ==
  /\ lp.pc = "loop"
  /\ lp.i < MaxPathLen
  /\ \E v \in Vertices : lp' = load_path_exact_iter(lp, v, snap_control)
  /\ UNCHANGED notLoad

\* cairo_append_path(cr, &path): the path data goes to the surface
LoadAppend ==
  /\ lp.pc = "loop"
  /\ lp' = [lp EXCEPT !.pc = "done", !.seg = NoSeg]
  /\ UNCHANGED notLoad

NextLoad == LoadVertex \/ LoadAppend

SpecLoad == InitSpecLoad /\ [][NextLoad]_vars

---------------------------------------------------------------------------
(* Claims about the fast polyline mode (specification SpecLoad).           *)

InBox(x, y) == QLe(min, x) /\ QLe(x, max) /\ QLe(min, y) /\ QLe(y, max)

OnBoundary(x, y) ==
  InBox(x, y) /\ (x = min \/ x = max \/ y = min \/ y = max)

\* the point of the segment p0 p1 at the parameter t
SegPoint(p0, p1, t) ==
  [x |-> QAdd(p0.x, QMul(t, QSub(p1.x, p0.x))),
   y |-> QAdd(p0.y, QMul(t, QSub(p1.y, p0.y)))]

\* The parameters in [0, 1] at which the segment p0 p1 can enter or leave
\* the box: its two ends and where it meets the lines of the four sides.
SegParams(p0, p1) ==
  {QInt(0), QInt(1)}
  \cup {QDiv(QSub(c, p0.x), QSub(p1.x, p0.x)) : c \in {b \in {min, max} : p1.x # p0.x}}
  \cup {QDiv(QSub(c, p0.y), QSub(p1.y, p0.y)) : c \in {b \in {min, max} : p1.y # p0.y}}

\* the parameters of SegParams at which the segment is in the box
SegInBox(p0, p1) ==
  {t \in SegParams(p0, p1) :
     /\ QLe(QInt(0), t) /\ QLe(t, QInt(1))
     /\ InBox(SegPoint(p0, p1, t).x, SegPoint(p0, p1, t).y)}

QMin(S) == CHOOSE t \in S : \A u \in S : QLe(t, u)
QMax(S) == CHOOSE t \in S : \A u \in S : QLe(u, t)

\* What the last iteration emitted for the segment lp.seg.p0 lp.seg.p1 is
\* the part of the segment that is in the box: nothing but a MOVE_TO if no
\* point of the segment is in the box, else a LINE_TO from the first to the
\* last point of the segment in the box, an end that is not the vertex
\* itself lying on the boundary.
SegmentClipped ==
  LET p0 == lp.seg.p0
      p1 == lp.seg.p1
      T  == SegInBox(p0, p1)
      n  == Len(lp.out)
      a  == SegPoint(p0, p1, QMin(T))
      b  == SegPoint(p0, p1, QMax(T))
  IN  IF T = {} THEN lp.out[n].op = "MOVE_TO"
      ELSE /\ lp.out[n].op = "LINE_TO"
           /\ lp.out[n - 1].x = a.x /\ lp.out[n - 1].y = a.y
           /\ lp.out[n].x = b.x /\ lp.out[n].y = b.y
           /\ (a # p0 => OnBoundary(lp.out[n - 1].x, lp.out[n - 1].y))
           /\ (b # p1 => OnBoundary(lp.out[n].x, lp.out[n].y))
           /\ (InBox(p0.x, p0.y) => a = p0)
           /\ (InBox(p1.x, p1.y) => b = p1)

C7_CoordsInBox ==
  lp.pc = "done" =>
    \A j \in 1..Len(lp.out) : InBox(lp.out[j].x, lp.out[j].y)

---------------------------------------------------------------------------
(* Longer paths without codes (specification SpecBreak): the vertices are  *)
(* few, one of them is non-finite.  The loader's record also keeps, for    *)
(* each vertex read, whether it was finite (inp) and, for each element of  *)
(* the path data, the index of the vertex it was made from (src).          *)

\* vertices of one path
MaxBreakLen == 4

\* inside the box, left of it, above it, and a non-finite vertex
BreakVertices ==
  {[x |-> Q(1, 2), y |-> Q(1, 2)],
   [x |-> QInt(-(BoxMax + 1)), y |-> Q(1, 2)],
   [x |-> Q(1, 2), y |-> QInt(BoxMax + 1)],
   [x |-> NaN, y |-> Q(1, 2)]}

InitSpecBreak ==
  /\ surfType \in {"image", "vector"}
  /\ \E sn \in BOOLEAN : states = <<[BaseState EXCEPT !.snap = sn]>>
  /\ expect = states
  /\ gstate = <<>> /\ crStatus = "SUCCESS"
  /\ liveCtx = 0 /\ livePat = 0 /\ ncalls = 0 /\ ub = FALSE
  /\ last = [op |-> "init", kind |-> "init", err |-> None, depth0 |-> 1,
             g0 |-> 0, ctx0 |-> 0, pat0 |-> 0, gc |-> TRUE, fwd |-> FALSE]
  /\ IdleRegion /\ IdleStyle /\ IdleText /\ IdleColl
  /\ \E lw \in LineWidths :
       lp = [pc |-> "loop", lw |-> lw, prev |-> <<>>, out |-> <<>>, i |-> 0,
             seg |-> NoSeg, inp |-> <<>>, src |-> <<>>]

\* the record of one iteration: l0 before it, l after it, on the vertex v of
\* index l0.i + 1; inp says which vertices read were finite, src gives for
\* each element of the path data the index of the vertex it was made from
break_record(l0, l, v) ==
  [l EXCEPT
     !.inp = Append(@, v.x.k = "fin" /\ v.y.k = "fin"),
     !.src = @ \o (IF Len(l.out) = Len(l0.out) + 2 THEN <<l0.i, l0.i + 1>>
                   ELSE IF Len(l.out) = Len(l0.out) + 1 THEN <<l0.i + 1>>
                   ELSE <<>>)]

\* for (auto i = start; i < stop; ++i) { ... } on the vertex of index lp.i + 1
LoadVertexFew ==
  /\ lp.pc = "loop"
  /\ lp.i < MaxBreakLen
  /\ \E v \in BreakVertices :
       lp' = break_record(lp, load_path_exact_iter(lp, v, snap_control), v)
  /\ UNCHANGED notLoad

NextBreak == LoadVertexFew \/ LoadAppend

SpecBreak == InitSpecBreak /\ [][NextBreak]_vars

\* C20: every LINE_TO of the path data goes from the element made from the
\* vertex before to a finite vertex whose predecessor in the input is
\* finite too, and the element made from the first finite vertex after a
\* non-finite one (or from the first vertex) is a MOVE_TO: no line joins
\* two vertices across a non-finite vertex.
C20_NonFiniteBreaksLine ==
  lp.pc \in {"loop", "done"} =>
    /\ Len(lp.src) = Len(lp.out)
    /\ \A j \in 1..Len(lp.out) :
         LET k == lp.src[j]
         IN  /\ lp.out[j].op = "LINE_TO" =>
                  /\ j > 1 /\ k > 1
                  /\ lp.inp[k] /\ lp.inp[k - 1]
                  /\ lp.src[j - 1] = k - 1
             /\ (k = 1 \/ ~lp.inp[k - 1]) => lp.out[j].op = "MOVE_TO"

\* C20 happens: a finite vertex, a non-finite one and two finite ones were
\* read; the path data is a move, a move and a line.
C20_Witness ==
  /\ lp.pc = "done"
  /\ lp.inp = <<TRUE, FALSE, TRUE, TRUE>>
  /\ Len(lp.out) = 3
  /\ lp.out[1].op = "MOVE_TO" /\ lp.out[2].op = "MOVE_TO"
  /\ lp.out[3].op = "LINE_TO"

---------------------------------------------------------------------------
(* The snappers of the two loaders on their own (specification SpecSnap):  *)
(* a line width and a coordinate are drawn, the snappers are applied to    *)
(* the coordinate and then to their own results.                           *)

\* the coordinates are the quarters in [-SnapRange, SnapRange]
SnapRange == 3

SnapInputs == {Q(n, 4) : n \in (-4 * SnapRange)..(4 * SnapRange)}

\* cairo_get_line_width(cr): 0, 1/2, 1, 2, 5/2, 3
SnapLineWidths == {QInt(0), Q(1, 2), QInt(1), QInt(2), Q(5, 2), QInt(3)}


\* the snapper of the overload with codes:
\* snap ? ((0 < lw) && ((lw < 1) || (std::lround(lw) % 2 == 1))
\*         ? floor + .5 : round) : identity
snapper_exact(snap, lw, x) ==
  IF snap
    THEN IF QLt(QInt(0), lw) /\ (QLt(lw, QInt(1)) \/ QRound(lw) % 2 = 1)
           THEN snap_half(x) ELSE snap_round(x)
    ELSE x

InitSpecSnap ==
  /\ InitGcr /\ IdleRegion /\ IdleStyle /\ IdleText /\ IdleColl
  /\ \E lw \in SnapLineWidths, x \in SnapInputs :
       lp = [pc |-> "snap0", lw |-> lw, x |-> x]

\* the snappers called on x
SnapOnce ==
  /\ lp.pc = "snap0"
  /\ lp' = [pc |-> "snap1", lw |-> lp.lw, x |-> lp.x,
            half |-> snap_half(lp.x), round |-> snap_round(lp.x),
            fast |-> snapper(lp.lw, lp.x),
            exact |-> snapper_exact(TRUE, lp.lw, lp.x)]
  /\ UNCHANGED notLoad

\* the snappers called on their own results
SnapAgain ==
  /\ lp.pc = "snap1"
  /\ lp' = [pc |-> "snap2", lw |-> lp.lw, x |-> lp.x,
            half |-> lp.half, round |-> lp.round,
            half2 |-> snap_half(lp.half), round2 |-> snap_round(lp.round)]
  /\ UNCHANGED notLoad

NextSnap == SnapOnce \/ SnapAgain

SpecSnap == InitSpecSnap /\ [][NextSnap]_vars

\* C14: each of the two snapping functions, floor(x) + 1/2 and round(x),
\* gives back an already snapped coordinate: snap(snap(x)) = snap(x).
C14_SnapIdempotent ==
  lp.pc = "snap2" => lp.half2 = lp.half /\ lp.round2 = lp.round

\* C14 happens: both snappers were applied twice to a negative coordinate
\* that neither of them leaves where it is.
C14_Witness ==
  /\ lp.pc = "snap2"
  /\ QLt(lp.x, QInt(0)) /\ lp.half # lp.x /\ lp.round # lp.x
  /\ lp.half # lp.round

\* the snapping target of the specification: the half-integer if the line
\* width is below 1 or rounds to an odd integer, else the integer
SnapTarget(lw, x) ==
  IF QLt(lw, QInt(1)) \/ QRound(lw) % 2 = 1 THEN snap_half(x) ELSE snap_round(x)

\* C18: for every line width lw >= 0 the two loaders snap a coordinate to
\* the same target: the half-integer if lw < 1 or lw rounds to an odd
\* integer, the integer otherwise.
C18_SameSnapTarget ==
  lp.pc = "snap1" =>
    /\ lp.fast = lp.exact
    /\ lp.fast = SnapTarget(lp.lw, lp.x)

---------------------------------------------------------------------------
(* load_path_exact on a path with codes (specification SpecExact).  The    *)
(* loader's state is cairo's current point and the start of the current    *)
(* sub-path, each with the device point it came from, and what the last    *)
(* code made the loader emit.                                              *)

\* codes of one path
MaxExactCodes == 2

PosInf == [k |-> "inf", n |-> 1, d |-> 1]

Pt(x, y) == [x |-> x, y |-> y]

\* device points of the vertices of a path with codes
ExactPoints ==
  {Pt(Q(1, 4), Q(1, 4)), Pt(Q(5, 4), Q(1, 4)), Pt(Q(5, 4), Q(5, 4)),
   Pt(PosInf, Q(1, 4)), Pt(NaN, Q(1, 4))}

PathCodes == {"STOP", "MOVETO", "LINETO", "CURVE3", "CURVE4", "CLOSEPOLY"}

finite_point(p) == isfinite(p.x) /\ isfinite(p.y)

\* std::clamp(v, min, max): (v < min) ? min : (max < v) ? max : v.  A NaN is
\* outside the precondition of std::clamp: any of the three can come out.
clamp(v) ==
  IF v.k = "nan" THEN {NaN, min, max}
  ELSE IF v.k = "inf" THEN {IF v.n < 0 THEN min ELSE max}
  ELSE IF QLt(v, min) THEN {min}
  ELSE IF QLt(max, v) THEN {max}
  ELSE {v}

clamp_point(p) == {Pt(x, y) : x \in clamp(p.x), y \in clamp(p.y)}

\* (snapper(x), snapper(y)), on a clamped finite point
snap_point(snap, lw, p) ==
  Pt(snapper_exact(snap, lw, p.x), snapper_exact(snap, lw, p.y))

\* a point of the path with the vertex it was made from
Placed(device, em) == [raw |-> device, em |-> em]

Emitted(op, pts) == [op |-> op, pts |-> pts]

\* (a + 2 * b) / 3 and (2 * a + b) / 3, coordinate by coordinate
third(a, b) ==
  Pt(QDiv(QAdd(a.x, QMul(QInt(2), b.x)), QInt(3)),
     QDiv(QAdd(a.y, QMul(QInt(2), b.y)), QInt(3)))

\* std::isfinite(x1) && std::isfinite(y1), evaluated after the clamp
curve4_inner_finite(p1, c1) == finite_point(c1)

\* One iteration of the main loop on a code and its vertices p0, p1, p2
\* (p1: CURVE3 and CURVE4, p2: CURVE4), c0, c1, c2 their clamped values.
\* Returns the new current point, sub-path start and emitted element.
load_path_exact_code(l, snap, code, p0, p1, p2, c0, c1, c2) ==
  LET is_finite == finite_point(p0)
      new_sub_path == [cur |-> <<>>, start |-> <<>>,
                       em |-> Emitted("NEW_SUB_PATH", <<>>)]
      move_to(p, c) ==
        LET q == Placed(p, snap_point(snap, l.lw, c))
        IN  [cur |-> <<q>>, start |-> <<q>>, em |-> Emitted("MOVE_TO", <<q.em>>)]
      \* cairo_line_to without a current point is a cairo_move_to
      line_to(p, c) ==
        LET q == Placed(p, snap_point(snap, l.lw, c))
        IN  IF l.cur = <<>> THEN move_to(p, c)
            ELSE [cur |-> <<q>>, start |-> l.start,
                  em |-> Emitted("LINE_TO", <<l.cur[1].em, q.em>>)]
      curve_to(a, b, p, c) ==
        LET q == Placed(p, snap_point(snap, l.lw, c))
        IN  [cur |-> <<q>>, start |-> l.start,
             em |-> Emitted("CURVE_TO", <<l.cur[1].em, a, b, q.em>>)]
  IN  CASE code = "STOP" ->
             [cur |-> l.cur, start |-> l.start, em |-> Emitted("NONE", <<>>)]
        [] code = "MOVETO" ->
             IF is_finite THEN move_to(p0, c0) ELSE new_sub_path
        [] code = "LINETO" ->
             IF is_finite THEN line_to(p0, c0) ELSE new_sub_path
        [] code = "CURVE3" ->
             IF finite_point(p1)
               THEN IF is_finite /\ l.cur # <<>>
                      THEN curve_to(third(l.cur[1].em, c0), third(c1, c0), p1, c1)
                      ELSE move_to(p1, c1)
               ELSE new_sub_path
        [] code = "CURVE4" ->
             IF finite_point(p2)
               THEN IF is_finite /\ curve4_inner_finite(p1, c1) /\ l.cur # <<>>
                      THEN curve_to(c0, c1, p2, c2)
                      ELSE move_to(p2, c2)
               ELSE new_sub_path
        [] code = "CLOSEPOLY" ->
             \* cairo_close_path: back to the start of the sub-path
             IF l.cur = <<>>
               THEN [cur |-> l.cur, start |-> l.start,
                     em |-> Emitted("NONE", <<>>)]
               ELSE [cur |-> l.start, start |-> l.start,
                     em |-> Emitted("CLOSE_PATH", <<>>)]

NoCode == [code |-> "STOP", p0 |-> Pt(NaN, NaN), p1 |-> Pt(NaN, NaN),
           p2 |-> Pt(NaN, NaN), prev |-> <<>>, em |-> Emitted("NONE", <<>>)]

InitSpecExact ==
  /\ surfType \in {"image", "vector"}
  /\ \E sn \in BOOLEAN : states = <<[BaseState EXCEPT !.snap = sn]>>
  /\ expect = states
  /\ gstate = <<>> /\ crStatus = "SUCCESS"
  /\ liveCtx = 0 /\ livePat = 0 /\ ncalls = 0 /\ ub = FALSE
  /\ last = [op |-> "init", kind |-> "init", err |-> None, depth0 |-> 1,
             g0 |-> 0, ctx0 |-> 0, pat0 |-> 0, gc |-> TRUE, fwd |-> FALSE]
  /\ IdleRegion /\ IdleStyle /\ IdleText /\ IdleColl
  /\ \E lw \in LineWidths :
       lp = [pc |-> "exact", lw |-> lw, cur |-> <<>>, start |-> <<>>, i |-> 0,
             last |-> NoCode]

\* for (auto i = 0; i < n; ++i) { ... switch (codes(i)) ... }
LoadCode ==
  /\ lp.pc = "exact"
  /\ lp.i < MaxExactCodes
  /\ \E code \in PathCodes, p0 \in ExactPoints :
     \E p1 \in IF code \in {"CURVE3", "CURVE4"} THEN ExactPoints ELSE {p0} :
     \E p2 \in IF code = "CURVE4" THEN ExactPoints ELSE {p0} :
     \E c0 \in IF finite_point(p0) THEN clamp_point(p0) ELSE {p0} :
     \E c1 \in IF code = "CURVE4" THEN clamp_point(p1)
               ELSE IF finite_point(p1) THEN clamp_point(p1) ELSE {p1} :
     \E c2 \in IF finite_point(p2) THEN clamp_point(p2) ELSE {p2} :
       LET r == load_path_exact_code(lp, snap_control, code, p0, p1, p2,
                                     c0, c1, c2)
       IN  lp' = [lp EXCEPT !.cur = r.cur, !.start = r.start, !.i = @ + 1,
                            !.last = [code |-> code, p0 |-> p0, p1 |-> p1,
                                      p2 |-> p2, prev |-> lp.cur, em |-> r.em]]
  /\ UNCHANGED notLoad

\* the end of the loop: the path stays in cr
LoadExactEnd ==
  /\ lp.pc = "exact"
  /\ lp' = [lp EXCEPT !.pc = "done"]
  /\ UNCHANGED notLoad

NextExact == LoadCode \/ LoadExactEnd

SpecExact == InitSpecExact /\ [][NextExact]_vars

\* C17: with snapping on, on a raster target, a segment has both its
\* endpoints snapped if and only if it is horizontal or vertical in device
\* space, and a segment that is neither is emitted with its endpoints as
\* they are; on a vector target, or with the snap flag off, nothing is
\* snapped.  Here: the segment of a LINETO of a path with codes.
C17_SnapsAxisAlignedOnly ==
  (lp.last.code = "LINETO" /\ finite_point(lp.last.p0) /\ lp.last.prev # <<>>) =>
    LET a == lp.last.prev[1].raw
        b == lp.last.p0
        aligned == a.x = b.x \/ a.y = b.y
        snapped(p) == Pt(SnapTarget(lp.lw, p.x), SnapTarget(lp.lw, p.y))
    IN  lp.last.em.pts = IF snap_control /\ aligned
                           THEN <<snapped(a), snapped(b)>>
                           ELSE <<a, b>>

\* C19: in a path with codes, a MOVETO or LINETO at a non-finite point, and
\* a CURVE3 or CURVE4 whose last point is non-finite, emit nothing and leave
\* no current point; a CURVE3 or CURVE4 whose last point is finite emits a
\* curve if there is a current point and every other control point is
\* finite, and a move to its last point otherwise.
C19_NonFiniteControlPoints ==
  LET L == lp.last
      breaks == L.em.op = "NEW_SUB_PATH" /\ lp.cur = <<>>
      curve_iff(others_finite) ==
        IF L.prev # <<>> /\ others_finite THEN L.em.op = "CURVE_TO"
        ELSE L.em.op = "MOVE_TO"
  IN  /\ (L.code \in {"MOVETO", "LINETO"} /\ ~finite_point(L.p0)) => breaks
      /\ (L.code = "CURVE3" /\ ~finite_point(L.p1)) => breaks
      /\ (L.code = "CURVE4" /\ ~finite_point(L.p2)) => breaks
      /\ (L.code = "CURVE3" /\ finite_point(L.p1)) =>
           curve_iff(finite_point(L.p0))
      /\ (L.code = "CURVE4" /\ finite_point(L.p2)) =>
           curve_iff(finite_point(L.p0) /\ finite_point(L.p1))

---------------------------------------------------------------------------
(* The stamping loop of draw_path_collection and its PatternCache          *)
(* (specification SpecColl).  The call has passed its fallback test, its   *)
(* gc test and its early return: no hatch, offset_position is not "data",  *)
(* and there is at least one path and one offset.                          *)

\* paths of one collection
MaxPaths == 2
\* offsets of one collection
MaxOffsets == 3
\* draw_path_collection calls in one behaviour
MaxCollCalls == 2

\* PatternCache{simplify_threshold}: a cache with no entry
PatternCacheNew(simplify_threshold) ==
  [simplify_threshold |-> simplify_threshold, keys |-> {}]

\* the key of an instance: the path, the draw operation, the line width and
\* the dash; neither the transform nor the offset is part of it
CacheKey(path, draw_func, lw, dash) ==
  [path |-> path, draw_func |-> draw_func, lw |-> lw, dash |-> dash]

\* PatternCache::mask: on a hit the cached pattern is reused at the offset,
\* on a miss the pattern is rasterized once and inserted
PatternCacheMask(cache, key) ==
  [cache |-> [cache EXCEPT !.keys = @ \cup {key}],
   event |-> [key |-> key, hit |-> key \in cache.keys]]

\* the mask calls of the iteration i: Fill if there are face colours, then
\* Stroke if there are edge colours
iter_keys(c, i) ==
  (IF c.fcs THEN <<CacheKey(i % c.n_paths, "Fill", 0, "solid")>> ELSE <<>>)
  \o (IF c.ecs THEN <<CacheKey(i % c.n_paths, "Stroke", 1, "solid")>> ELSE <<>>)

RECURSIVE mask_all(_, _, _)
mask_all(cache, log, keys) ==
  IF keys = <<>> THEN [cache |-> cache, log |-> log]
  ELSE LET r == PatternCacheMask(cache, Head(keys))
       IN  mask_all(r.cache, Append(log, r.event), Tail(keys))

\* the iteration with a PatternCache of its own
draw_path_collection_iter_fresh(c, i) ==
  IF ~c.offsets[(i % Len(c.offsets)) + 1] THEN [c EXCEPT !.i = i + 1]
  ELSE LET r == mask_all(PatternCacheNew(c.cache.simplify_threshold), c.log,
                         iter_keys(c, i))
       IN  [c EXCEPT !.i = i + 1, !.cache = r.cache, !.log = r.log]

\* One iteration of the loop: `continue` on a non-finite offset, else the
\* mask calls on the cache of the call.
draw_path_collection_iter(c, i) ==
  IF ~c.offsets[(i % Len(c.offsets)) + 1] THEN [c EXCEPT !.i = i + 1]
  ELSE LET r == mask_all(c.cache, c.log, iter_keys(c, i))
       IN  [c EXCEPT !.i = i + 1, !.cache = r.cache, !.log = r.log]

\* n = std::max({n_paths, n_transforms, n_offsets}), with one transform
collection_n(c) ==
  IF c.n_paths > Len(c.offsets) THEN c.n_paths ELSE Len(c.offsets)

notColl == <<states, gstate, crStatus, surfType, liveCtx, livePat, ncalls,
             expect, last, ub, width_, height_, surf, raw, region, rlast,
             ndraw, pen, txt, lp>>

InitSpecColl ==
  /\ surfType \in {"image", "vector"}
  /\ states = <<BaseState>> /\ expect = <<BaseState>>
  /\ gstate = <<>> /\ crStatus = "SUCCESS"
  /\ liveCtx = 0 /\ livePat = 0 /\ ncalls = 0 /\ ub = FALSE
  /\ last = [op |-> "init", kind |-> "init", err |-> None, depth0 |-> 1,
             g0 |-> 0, ctx0 |-> 0, pat0 |-> 0, gc |-> TRUE, fwd |-> FALSE]
  /\ IdleRegion /\ IdleStyle /\ IdleText /\ IdleLoad
  /\ coll = [pc |-> "idle", calls |-> 0, n_paths |-> 1, offsets |-> <<TRUE>>,
             fcs |-> FALSE, ecs |-> FALSE, i |-> 0, log |-> <<>>,
             cache |-> PatternCacheNew(<<0, 1>>)]

\* lines 842-845: the threshold and the new cache of the call
CollBegin ==
  /\ coll.pc \in {"idle", "done"}
  /\ coll.calls < MaxCollCalls
  /\ \E n_paths \in 1..MaxPaths, fcs \in BOOLEAN, ecs \in BOOLEAN,
        thr \in Thresholds,
        offsets \in UNION {[1..k -> BOOLEAN] : k \in 1..MaxOffsets} :
       coll' = [pc |-> "loop", calls |-> coll.calls + 1, n_paths |-> n_paths,
                offsets |-> offsets, fcs |-> fcs, ecs |-> ecs, i |-> 0,
                log |-> <<>>,
                cache |-> PatternCacheNew(IF has_vector_surface(surfType)
                                            THEN <<0, 1>> ELSE thr)]
  /\ UNCHANGED notColl

CollIter ==
  /\ coll.pc = "loop"
  /\ coll.i < collection_n(coll)
  /\ coll' = draw_path_collection_iter(coll, coll.i)
  /\ UNCHANGED notColl

\* the end of the loop and of the call: the cache goes out of scope
CollEnd ==
  /\ coll.pc = "loop"
  /\ coll.i = collection_n(coll)
  /\ coll' = [coll EXCEPT !.pc = "done", !.cache.keys = {}]
  /\ UNCHANGED notColl

NextColl == CollBegin \/ CollIter \/ CollEnd

SpecColl == InitSpecColl /\ [][NextColl]_vars

---------------------------------------------------------------------------
(* Claims about the pattern cache (specification SpecColl).                *)

\* the instances of the call drawn so far that have the key k
Instances(k) ==
  {j \in 0..(coll.i - 1) :
     /\ coll.offsets[(j % Len(coll.offsets)) + 1]
     /\ j % coll.n_paths = k.path
     /\ IF k.draw_func = "Fill" THEN coll.fcs ELSE coll.ecs}

Events(k, hit) ==
  {j \in 1..Len(coll.log) : coll.log[j].key = k /\ coll.log[j].hit = hit}

AllKeys ==
  {CacheKey(p, "Fill", 0, "solid") : p \in 0..(MaxPaths - 1)}
  \cup {CacheKey(p, "Stroke", 1, "solid") : p \in 0..(MaxPaths - 1)}

---------------------------------------------------------------------------
(* Antialiasing: the mode cr_ carries inside and after an                  *)
(* AdditionalContext (specification SpecAA).  pen holds the line width and *)
(* the antialias mode of cr_'s graphics state, and the mode cairo_save put *)
(* aside.                                                                   *)

\* set_linewidth and scope entries in one behaviour
MaxAACalls == 4

\* the line widths of cr_, in device units: around the threshold of 1/3
AALineWidths == {QInt(0), Q(1, 4), Q(1, 3), Q(1, 2), QInt(2)}

\* lw <= 1. / 3 in place of lw < 1. / 3
resolve_antialias_le(aa, lw) ==
  IF aa \in AntialiasT THEN aa
  ELSE IF aa = "true"
    THEN IF QLe(lw, Q(1, 3)) THEN "BEST" ELSE "FAST"
  ELSE "NONE"

\* the std::visit on state.antialias: a cairo_antialias_t is passed on, true
\* picks BEST or FAST by the line width, false gives NONE
resolve_antialias(aa, lw) ==
  IF aa \in AntialiasT THEN aa
  ELSE IF aa = "true"
    THEN IF QLt(lw, Q(1, 3)) THEN "BEST" ELSE "FAST"
  ELSE "NONE"

NoAACall == [op |-> "init", aa0 |-> "DEFAULT", state |-> "true", lw |-> QInt(2)]

\* cr_ after the constructor: CAIRO_ANTIALIAS_DEFAULT, cairo's line width 2
NewAA ==
  [pc |-> "out", aa |-> "DEFAULT", lw |-> QInt(2), saved |-> <<>>, n |-> 0,
   last |-> NoAACall]

notAA == <<states, gstate, crStatus, surfType, liveCtx, livePat, ncalls,
           expect, last, ub, width_, height_, surf, raw, region, rlast,
           ndraw, txt, lp, coll>>

\* set_linewidth(lw): cairo_set_line_width(cr_, points_to_pixels(lw))
set_linewidth ==
  /\ Defined
  /\ pen.pc = "out"
  /\ pen.n < MaxAACalls
  /\ \E lw \in AALineWidths :
       pen' = [pen EXCEPT !.lw = lw, !.n = @ + 1,
                          !.last = [NoAACall EXCEPT !.op = "set_linewidth"]]
  /\ UNCHANGED notAA

\* AdditionalContext(gcr): cairo_save(cr), then cairo_set_antialias
AAEnter ==
  /\ Defined
  /\ pen.pc = "out"
  /\ pen.n < MaxAACalls
  /\ pen' = [pen EXCEPT
               !.pc = "scope",
               !.saved = Append(@, pen.aa),
               !.aa = resolve_antialias(Top(states).antialias, pen.lw),
               !.n = @ + 1,
               !.last = [op |-> "enter", aa0 |-> pen.aa,
                         state |-> Top(states).antialias, lw |-> pen.lw]]
  /\ UNCHANGED notAA

\* ~AdditionalContext(): cairo_restore(gcr_->cr_)
AAExit ==
  /\ pen.pc = "scope"
  /\ pen' = [pen EXCEPT !.pc = "out",
                        !.aa = Top(pen.saved),
                        !.saved = Pop(@),
                        !.last.op = "exit"]
  /\ UNCHANGED notAA

\* set_antialiased is called between draw calls only
set_antialiased_out == pen.pc = "out" /\ set_antialiased

InitSpecAA ==
  /\ InitGcr /\ IdleRegion /\ IdleText /\ IdleLoad /\ IdleColl
  /\ pen = NewAA

NextAA == set_antialiased_out \/ set_linewidth \/ AAEnter \/ AAExit

SpecAA == InitSpecAA /\ [][NextAA]_vars

---------------------------------------------------------------------------
(* matrix_from_transform(transform, y0) (specification SpecMatrix).  lp     *)
(* holds the transform handed in and, once the call is over, what it        *)
(* returned or threw.                                                       *)

\* the entries of the transformation matrices are -1 and MatMax
MatMax == 2
MatVals == {-1, MatMax}

\* the vertical extents y0
MatHeights == {0, MatMax + 1}

\* getattr(transform, "is_affine", true): the attribute, or "absent"
AffineMarks == {"true", "false", "absent"}

\* the shapes of the array the transform casts to
MatShapes == {<<3, 3>>, <<2, 3>>, <<3, 2>>}

\* the transforms: the mark, the shape, and the first two rows of the array
\* (row r, column c at m[r + 1][c + 1])
Transforms ==
  [is_affine : AffineMarks, shape : MatShapes,
   m : {<<<<a, c, e>>, <<b, d, f>>>> : a \in MatVals, b \in {0, 1},
        c \in {0, 1}, d \in MatVals, e \in {MatMax}, f \in MatVals}]

NoMatrix == [xx |-> 0, yx |-> 0, xy |-> 0, yy |-> 0, x0 |-> 0, y0 |-> 0]

\* the second overload's layout of the entries: no flip of the y axis
matrix_from_transform_unflipped(transform, y0) ==
  IF transform.is_affine = "false"
    THEN [err |-> InvalidArgument, matrix |-> None]
  ELSE IF transform.shape # <<3, 3>>
    THEN [err |-> InvalidArgument, matrix |-> None]
  ELSE [err |-> None,
        matrix |-> [xx |-> transform.m[1][1], yx |-> transform.m[2][1],
                    xy |-> transform.m[1][2], yy |-> transform.m[2][2],
                    x0 |-> transform.m[1][3], y0 |-> transform.m[2][3]]]

\* matrix_from_transform(py::object transform, double y0): the fields of the
\* cairo_matrix_t in their order xx, yx, xy, yy, x0, y0
matrix_from_transform(transform, y0) ==
  IF transform.is_affine = "false"
    THEN [err |-> InvalidArgument, matrix |-> None]
  ELSE IF transform.shape # <<3, 3>>
    THEN [err |-> InvalidArgument, matrix |-> None]
  ELSE [err |-> None,
        matrix |-> [xx |-> transform.m[1][1], yx |-> -transform.m[2][1],
                    xy |-> transform.m[1][2], yy |-> -transform.m[2][2],
                    x0 |-> transform.m[1][3], y0 |-> y0 - transform.m[2][3]]]

InitSpecMatrix ==
  /\ InitGcr /\ IdleRegion /\ IdleStyle /\ IdleText /\ IdleColl
  /\ \E t \in Transforms, h \in MatHeights :
       lp = [pc |-> "call", transform |-> t, y0 |-> h]

\* auto matrix = matrix_from_transform(transform, height_)
MatrixCall ==
  /\ lp.pc = "call"
  /\ lp' = [pc |-> "done", transform |-> lp.transform, y0 |-> lp.y0,
            res |-> matrix_from_transform(lp.transform, lp.y0)]
  /\ UNCHANGED notLoad

NextMatrix == MatrixCall

SpecMatrix == InitSpecMatrix /\ [][NextMatrix]_vars

---------------------------------------------------------------------------
(* draw_markers, instance by instance (specification SpecMarkers).  lp      *)
(* holds the arguments of one call without a fault and, once the call is    *)
(* over, what it did: whether the grid of patches was allocated, the patches*)
(* rendered, and how often each instance was drawn directly or painted from *)
(* a patch.                                                                 *)

\* instances of one draw_markers call
MaxMarkerVerts == 5

\* rcParams["path.simplify_threshold"], a fraction in [0, 1]: below the limit
\* of 1/16, at it, and above it
MarkerThresholds == {<<0, 1>>, <<1, 32>>, <<1, 16>>, <<1, 2>>, <<3, 4>>, <<1, 1>>}

\* finiteness of the device position of each instance
MarkerFlags == UNION {[1..n -> BOOLEAN] : n \in 0..MaxMarkerVerts}

\* the pre-rendering loops: cairo_push_group(raster_cr), draw_one_marker
\* (raster_cr, ...), cairo_pop_group, for each of the n_subpix * n_subpix
\* patches; the loops end at the first patch that throws.  raster_cr is a
\* fresh context on an image surface: it carries no state stack.
prerender(n_subpix) ==
  LET r == fill_and_stroke_exact(TRUE, FALSE, FALSE)
  IN  IF n_subpix = 0 THEN [patches |-> 0, err |-> None]
      ELSE IF r.err # None THEN [patches |-> 0, err |-> r.err]
      ELSE [patches |-> n_subpix * n_subpix, err |-> None]

\* draw_markers(gc, marker_path, marker_transform, path, transform, fc) with
\* arguments that make no statement of its own throw
draw_markers_run(type, thr, verts) ==
  LET none == [i \in 1..Len(verts) |-> 0]
      each == [i \in 1..Len(verts) |-> IF verts[i] THEN 1 ELSE 0]
  IN  IF StampGridActive(type, thr, Len(verts))
        THEN LET p == prerender(CeilInv(thr))
             IN  [grid |-> TRUE, n_subpix |-> CeilInv(thr),
                  patches |-> p.patches, err |-> p.err, direct |-> none,
                  painted |-> IF p.err = None THEN each ELSE none]
      ELSE [grid |-> FALSE, n_subpix |-> 0, patches |-> 0, err |-> None,
            direct |-> each, painted |-> none]

InitSpecMarkers ==
  /\ InitGcr /\ IdleRegion /\ IdleStyle /\ IdleText /\ IdleColl
  /\ \E thr \in MarkerThresholds, verts \in MarkerFlags :
       lp = [pc |-> "call", thr |-> thr, verts |-> verts]

MarkersCall ==
  /\ lp.pc = "call"
  /\ lp' = [pc |-> "done", thr |-> lp.thr, verts |-> lp.verts,
            res |-> draw_markers_run(surfType, lp.thr, lp.verts)]
  /\ UNCHANGED notLoad

NextMarkers == MarkersCall

SpecMarkers == InitSpecMarkers /\ [][NextMarkers]_vars

\* the grid size of a call: ceil(1 / threshold)
GridSize(thr) == IF thr[1] = 0 THEN 0 ELSE (thr[2] + thr[1] - 1) \div thr[1]

C27_StampingCompletes ==
  (lp.pc = "done" /\ lp.res.grid) =>
    /\ lp.res.err = None
    /\ lp.res.patches = lp.res.n_subpix * lp.res.n_subpix
    /\ \A i \in 1..Len(lp.verts) :
         lp.res.painted[i] = (IF lp.verts[i] THEN 1 ELSE 0)

---------------------------------------------------------------------------
(* The patch draw_markers paints for one instance (specification SpecStamp):*)
(* the body of the loop over the vertices in the branch with stamps, on the *)
(* position target = (x + x0, y + y0) of the instance.                      *)

\* the grids have 1 .. MaxSubpix patches a side
MaxSubpix == 3

\* target_x in eighths of a pixel, target_y in halves
StampDen == 8
StampXs == {Q(k, StampDen) : k \in (0 - StampDen)..(2 * StampDen - 1)}
StampYs == {Q(k, 2) : k \in -1..2}

\* int(n_subpix * f_target): the conversion truncates
stamp_phase(n_subpix, f) == QFloor(QMul(QInt(n_subpix), f))

\* i_target = std::floor(target); f_target = target - i_target;
\* idx = int(n_subpix * f_target_x) * n_subpix + int(n_subpix * f_target_y);
\* pattern_matrix = {1, 0, 0, 1, -i_target_x, -i_target_y}
stamp_vertex(n_subpix, target_x, target_y) ==
  LET i_target_x == QFloor(target_x)
      i_target_y == QFloor(target_y)
      f_target_x == QSub(target_x, QInt(i_target_x))
      f_target_y == QSub(target_y, QInt(i_target_y))
  IN  [idx |-> stamp_phase(n_subpix, f_target_x) * n_subpix
                 + stamp_phase(n_subpix, f_target_y),
       f_x |-> f_target_x, f_y |-> f_target_y,
       pattern_matrix |-> [xx |-> 1, yx |-> 0, xy |-> 0, yy |-> 1,
                           x0 |-> 0 - i_target_x, y0 |-> 0 - i_target_y]]

InitSpecStamp ==
  /\ InitGcr /\ IdleRegion /\ IdleStyle /\ IdleText /\ IdleColl
  /\ surfType = "image"
  /\ \E n \in 1..MaxSubpix, x \in StampXs, y \in StampYs :
       lp = [pc |-> "vertex", n_subpix |-> n, target_x |-> x, target_y |-> y]

StampVertex ==
  /\ lp.pc = "vertex"
  /\ lp' = [lp EXCEPT !.pc = "done"] @@
           [res |-> stamp_vertex(lp.n_subpix, lp.target_x, lp.target_y)]
  /\ UNCHANGED notLoad

NextStamp == StampVertex

SpecStamp == InitSpecStamp /\ [][NextStamp]_vars

\* the distance of the phase i / n from the fractional offset f
PhaseDistance(i, n, f) ==
  LET d == QSub(Q(i, n), f)
  IN  IF d.n < 0 THEN Q(0 - d.n, d.d) ELSE d

---------------------------------------------------------------------------
(* MathtextBackend (specification SpecMath).  txt holds the backend object: *)
(* its extents xmin_, ymin_, xmax_, ymax_, whether it has a context cr_,    *)
(* the items of the layout shipped last and the rectangle get_results       *)
(* attached to the surface.  Coordinates are integers, y grows downwards.   *)

\* layouts run on one backend object
MaxLayouts == 2
\* glyphs and rectangles of one layout
MaxItems == 2

\* what ship() renders: glyphs at (ox, oy) with their metrics, and filled
\* rectangles by their corners
MathItems ==
  {[kind |-> "glyph", ox |-> 1, oy |-> 3, xmin |-> 0, xmax |-> 2, ymin |-> -1, ymax |-> 2],
   [kind |-> "glyph", ox |-> 4, oy |-> 3, xmin |-> 1, xmax |-> 3, ymin |-> 0, ymax |-> 1],
   [kind |-> "rect", x1 |-> 1, y1 |-> 1, x2 |-> 3, y2 |-> 2],
   [kind |-> "rect", x1 |-> -1, y1 |-> -2, x2 |-> 6, y2 |-> 5]}

MathLayouts == UNION {[1..n -> MathItems] : n \in 0..MaxItems}

IMin(a, b) == IF a < b THEN a ELSE b
IMax(a, b) == IF a > b THEN a ELSE b

\* MathtextBackend(): cr_{}, xmin_{}, ymin_{}, xmax_{}, ymax_{}
NewBackend ==
  [pc |-> "new", cr |-> FALSE, xmin_ |-> 0, ymin_ |-> 0, xmax_ |-> 0,
   ymax_ |-> 0, n |-> 0, items |-> <<>>,
   rect |-> [x |-> 0, y |-> 0, width |-> 0, height |-> 0]]

\* render_glyph(ox, oy, info)
render_glyph(b, g) ==
  [b EXCEPT !.xmin_ = IMin(@, g.ox + g.xmin),
            !.ymin_ = IMin(@, g.oy - g.ymin),
            !.xmax_ = IMax(@, g.ox + g.xmax),
            !.ymax_ = IMax(@, g.oy - g.ymax)]

\* render_rect_filled(x1, y1, x2, y2)
render_rect_filled(b, r) ==
  [b EXCEPT !.xmin_ = IMin(@, r.x1),
            !.ymin_ = IMin(@, r.y1),
            !.xmax_ = IMax(@, r.x2),
            !.ymax_ = IMax(@, r.y2)]

\* ship(0, 0, box): the items of the box are rendered in their order
RECURSIVE ship(_, _, _)
ship(b, items, i) ==
  IF i > Len(items) THEN b
  ELSE ship(IF items[i].kind = "glyph" THEN render_glyph(b, items[i])
            ELSE render_rect_filled(b, items[i]),
            items, i + 1)

\* set_canvas_size(width, height, depth): a new recording surface and cr_
set_canvas_size ==
  /\ txt.pc \in {"new", "done"}
  /\ txt.n < MaxLayouts
  /\ txt' = [txt EXCEPT !.pc = "canvas", !.cr = TRUE, !.n = @ + 1]
  /\ UNCHANGED notText

\* get_results(box, used_characters): ship, then the rectangle
\* {xmin_, ymin_, xmax_ - xmin_, ymax_ - ymin_} goes with the surface
get_results ==
  /\ txt.pc = "canvas"
  /\ \E items \in MathLayouts :
       LET b == ship(txt, items, 1)
       IN  txt' = [b EXCEPT
                     !.pc = "done", !.cr = FALSE, !.items = items,
                     !.rect = [x |-> b.xmin_, y |-> b.ymin_,
                               width |-> b.xmax_ - b.xmin_,
                               height |-> b.ymax_ - b.ymin_]]
  /\ UNCHANGED notText

InitSpecMath ==
  /\ InitGcr /\ IdleRegion /\ IdleStyle /\ IdleLoad /\ IdleColl
  /\ txt = NewBackend

NextMath == set_canvas_size \/ get_results

SpecMath == InitSpecMath /\ [][NextMath]_vars

\* the extents of an item: left, top, right, bottom
ItemExtents(it) ==
  IF it.kind = "glyph"
    THEN [x0 |-> it.ox + it.xmin, y0 |-> it.oy - it.ymax,
          x1 |-> it.ox + it.xmax, y1 |-> it.oy - it.ymin]
  ELSE [x0 |-> it.x1, y0 |-> it.y1, x1 |-> it.x2, y1 |-> it.y2]

\* C25: the rectangle that goes with the results of a layout is the
\* smallest box around the extents of the glyphs and rectangles rendered in
\* that layout: it contains each of them, each of its sides touches one of
\* them, and layouts run earlier on the same object play no part in it.
C25_InkExtents ==
  (txt.pc = "done" /\ Len(txt.items) > 0) =>
    LET E == {ItemExtents(txt.items[i]) : i \in 1..Len(txt.items)}
        r == txt.rect
    IN  /\ \A e \in E : /\ r.x <= e.x0 /\ e.x1 <= r.x + r.width
                        /\ r.y <= e.y0 /\ e.y1 <= r.y + r.height
        /\ \E e \in E : e.x0 = r.x
        /\ \E e \in E : e.y0 = r.y
        /\ \E e \in E : e.x1 = r.x + r.width
        /\ \E e \in E : e.y1 = r.y + r.height

---------------------------------------------------------------------------
(* draw_quad_mesh with arguments that pass its checks (specification        *)
(* SpecMesh).  lp holds the size of the mesh and the number of edge colours *)
(* and, once the call is over, the cairo operations it issued on cr_.       *)

\* meshes of up to MaxMesh x MaxMesh cells
MaxMesh == 3
\* up to MaxEdgeColors rows in ecs
MaxEdgeColors == 4

\* the last edge colour for every cell past the end of ecs
edge_index_clamped(n, n_ecs) == IF n < n_ecs THEN n ELSE n_ecs - 1

\* n %= ecs_raw.shape(0)
edge_index(n, n_ecs) == n % n_ecs

\* the loops over the cells with edge colours: the quad of cell (i, j),
\* cairo_fill_preserve with fcs_raw(n), cairo_stroke with ecs_raw(n % E)
RECURSIVE quad_loop(_, _, _, _, _, _)
quad_loop(ops, i, j, mesh_width, mesh_height, n_ecs) ==
  IF i >= mesh_height THEN ops
  ELSE IF j >= mesh_width
    THEN quad_loop(ops, i + 1, 0, mesh_width, mesh_height, n_ecs)
  ELSE LET n == i * mesh_width + j
       IN  quad_loop(ops \o <<[op |-> "fill", cell |-> <<i, j>>, color |-> n],
                               [op |-> "stroke", cell |-> <<i, j>>,
                                color |-> edge_index(n, n_ecs)]>>,
                     i, j + 1, mesh_width, mesh_height, n_ecs)

\* the loops without edge colours: one patch of the mesh pattern per cell,
\* its four corners coloured fcs_raw(n)
RECURSIVE patch_loop(_, _, _, _, _)
patch_loop(patches, i, j, mesh_width, mesh_height) ==
  IF i >= mesh_height THEN patches
  ELSE IF j >= mesh_width
    THEN patch_loop(patches, i + 1, 0, mesh_width, mesh_height)
  ELSE patch_loop(Append(patches, [cell |-> <<i, j>>,
                                   color |-> i * mesh_width + j]),
                  i, j + 1, mesh_width, mesh_height)

\* draw_quad_mesh(gc, master_transform, mesh_width, mesh_height, coordinates,
\* offsets, offset_transform, fcs, aas, ecs): what it does to cr_
draw_quad_mesh_ops(mesh_width, mesh_height, n_ecs) ==
  IF n_ecs # 0
    THEN quad_loop(<<>>, 0, 0, mesh_width, mesh_height, n_ecs)
  ELSE <<[op |-> "paint",
          patches |-> patch_loop(<<>>, 0, 0, mesh_width, mesh_height)]>>

InitSpecMesh ==
  /\ InitGcr /\ IdleRegion /\ IdleStyle /\ IdleText /\ IdleColl
  /\ \E w \in 0..MaxMesh, h \in 0..MaxMesh, e \in 0..MaxEdgeColors :
       lp = [pc |-> "call", mesh_width |-> w, mesh_height |-> h, n_ecs |-> e]

QuadMeshCall ==
  /\ lp.pc = "call"
  /\ lp' = [lp EXCEPT !.pc = "done"] @@
           [ops |-> draw_quad_mesh_ops(lp.mesh_width, lp.mesh_height, lp.n_ecs)]
  /\ UNCHANGED notLoad

NextMesh == QuadMeshCall

SpecMesh == InitSpecMesh /\ [][NextMesh]_vars

\* C26: with E > 0 edge colours the operations are, for k = 0, 1, ... in
\* this order, the fill of cell (k div width, k mod width) with fill colour k
\* followed by its stroke with edge colour k mod E, each cell once; with
\* E = 0 there is no stroke and a single paint of a mesh pattern that has
\* one patch per cell, in the same order, coloured with fill colour k.
C26_QuadMeshCells ==
  lp.pc = "done" =>
    LET w == lp.mesh_width
        cells == lp.mesh_width * lp.mesh_height
        cell(k) == <<k \div w, k % w>>
    IN  IF lp.n_ecs > 0
          THEN /\ Len(lp.ops) = 2 * cells
               /\ \A k \in 0..(cells - 1) :
                    /\ lp.ops[2 * k + 1] =
                         [op |-> "fill", cell |-> cell(k), color |-> k]
                    /\ lp.ops[2 * k + 2] =
                         [op |-> "stroke", cell |-> cell(k),
                          color |-> k % lp.n_ecs]
        ELSE /\ Len(lp.ops) = 1
             /\ lp.ops[1].op = "paint"
             /\ Len(lp.ops[1].patches) = cells
             /\ \A k \in 0..(cells - 1) :
                  lp.ops[1].patches[k + 1] = [cell |-> cell(k), color |-> k]

\* C26 happens: a mesh of 3 x 2 cells was drawn with 4 edge colours, the
\* last cell stroked with edge colour 1.
C26_Witness ==
  /\ lp.pc = "done"
  /\ lp.mesh_width = 3 /\ lp.mesh_height = 2 /\ lp.n_ecs = 4
  /\ Len(lp.ops) = 12
  /\ lp.ops[12] = [op |-> "stroke", cell |-> <<1, 2>>, color |-> 1]

---------------------------------------------------------------------------
(* copy_from_bbox / restore_region with _set_size in between                *)
(* (specification SpecResize).                                              *)

\* _set_size(width, height, dpi): width_ = int(width); height_ = int(height);
\* only a PDF or PS surface is resized, an image surface keeps its pixels
_set_size ==
  /\ \E w \in 1..(SurfWidth + 1), h \in 1..(SurfHeight + 1) :
       /\ width_' = w
       /\ height_' = h
  /\ rlast' = [NoRegionCall EXCEPT !.op = "_set_size"]
  /\ UNCHANGED <<surf, raw, region, ndraw>>
  /\ UNCHANGED notRegion

NextResize == region_draw \/ copy_from_bbox \/ restore_region \/ _set_size

SpecResize == InitSpecRegion /\ [][NextResize]_vars

\* C28: no call of copy_from_bbox reads, and no call of restore_region
\* writes, a byte outside the pixel buffer of the image surface, whatever
\* _set_size calls came before.
C28_RegionInsideBuffer ==
  rlast.op \in {"copy_from_bbox", "restore_region"} => rlast.err # "undefined"

---------------------------------------------------------------------------
(* The vertex indices load_path_exact reads on a path with codes            *)
(* (specification SpecIndex).  vertices and codes both have n rows;         *)
(* vertices is an unchecked<2>() view, which tests no index.  lp holds the  *)
(* codes, the loop index i and the indices read so far.                     *)

\* rows of vertices and codes
MaxIndexLen == 3

CodeSeqs == UNION {[1..n -> PathCodes] : n \in 1..MaxIndexLen}

\* the rows of vertices an iteration at index i reads: vertices(i, .), and
\* vertices(i + 1, .) for CURVE3 and CURVE4, vertices(i + 2, .) for CURVE4
vertex_reads(code, i) ==
  IF code = "CURVE3" THEN {i, i + 1}
  ELSE IF code = "CURVE4" THEN {i, i + 1, i + 2}
  ELSE {i}

\* i += 1 (CURVE3), i += 2 (CURVE4), then the ++i of the loop
next_index(code, i) ==
  IF code = "CURVE3" THEN i + 2
  ELSE IF code = "CURVE4" THEN i + 3
  ELSE i + 1

InitSpecIndex ==
  /\ InitGcr /\ IdleRegion /\ IdleStyle /\ IdleText /\ IdleColl
  /\ \E codes \in CodeSeqs :
       lp = [pc |-> "loop", codes |-> codes, n |-> Len(codes), i |-> 0,
             reads |-> {}]

\* one iteration of for (auto i = 0; i < n; ++i); codes(i) is codes[i + 1].
\* A read past the last row is undefined: the loader crashes there or goes
\* on with whatever it read.
IndexStep ==
  /\ lp.pc = "loop"
  /\ lp.i < lp.n
  /\ LET code == lp.codes[lp.i + 1]
         rd == vertex_reads(code, lp.i)
     IN  \E crash \in BOOLEAN :
           /\ crash => \E r \in rd : r >= lp.n
           /\ lp' = [lp EXCEPT !.reads = @ \cup rd,
                               !.i = next_index(code, lp.i),
                               !.pc = IF crash THEN "crashed" ELSE "loop"]
  /\ UNCHANGED notLoad

\* i < n fails: the loop is over
IndexEnd ==
  /\ lp.pc = "loop"
  /\ lp.i >= lp.n
  /\ lp' = [lp EXCEPT !.pc = "done"]
  /\ UNCHANGED notLoad

NextIndex == IndexStep \/ IndexEnd

SpecIndex == InitSpecIndex /\ [][NextIndex]_vars

\* C29: every row of vertices read while loading a path with n codes and n
\* vertices has an index below n, whatever the codes.
C29_ReadsInsideVertices == \A r \in lp.reads : r < lp.n

---------------------------------------------------------------------------
(* The chunked stroke of draw_path (specification SpecChunk): a path        *)
(* without codes, no fill, no hatch, agg.path.chunksize > 0.  lp holds the  *)
(* finiteness of the device position of each vertex (vertex k at fin[k +    *)
(* 1]) and the chunk size and, once the call is over, the chunks loaded     *)
(* and the segments each of them put on cr_.                                *)

\* vertices of the path
MaxChunkVerts == 5
\* rcParams["agg.path.chunksize"]
MaxChunkSize == 3

ChunkFlags == UNION {[1..n -> BOOLEAN] : n \in 0..MaxChunkVerts}

\* a chunk that stops at i + chunksize
chunk_stop_short(i, chunksize, n) == IMin(i + chunksize, n)

\* std::min(i + chunksize + 1, n)
chunk_stop(i, chunksize, n) == IMin(i + chunksize + 1, n)

\* load_path_exact(cr, vertices, start, stop, matrix), by the indices of the
\* vertices: a finite vertex is joined to the vertex read just before it if
\* that one was finite (prev), a non-finite vertex resets prev; k is the
\* vertex read next, prev the finiteness of vertex k - 1 within this call.
RECURSIVE chunk_segments(_, _, _, _, _)
chunk_segments(fin, k, stop, prev, segs) ==
  IF k >= stop THEN segs
  ELSE IF fin[k + 1]
    THEN chunk_segments(fin, k + 1, stop, TRUE,
                        IF prev THEN Append(segs, <<k - 1, k>>) ELSE segs)
  ELSE chunk_segments(fin, k + 1, stop, FALSE, segs)

\* for (auto i = decltype(n)(0); i < n; i += chunksize) {
\*   load_path_exact(cr_, vertices, i, std::min(i + chunksize + 1, n), &matrix);
\*   cairo_stroke(cr_); }
RECURSIVE stroke_chunks(_, _, _, _)
stroke_chunks(fin, i, chunksize, strokes) ==
  IF i >= Len(fin) THEN strokes
  ELSE LET stop == chunk_stop(i, chunksize, Len(fin))
       IN  stroke_chunks(fin, i + chunksize, chunksize,
                         Append(strokes,
                                [start |-> i, stop |-> stop,
                                 segs |-> chunk_segments(fin, i, stop, FALSE, <<>>)]))

InitSpecChunk ==
  /\ InitGcr /\ IdleRegion /\ IdleStyle /\ IdleText /\ IdleColl
  /\ \E fin \in ChunkFlags, c \in 1..MaxChunkSize :
       lp = [pc |-> "call", fin |-> fin, chunksize |-> c]

\* the else branch of draw_path's stroke
StrokeChunked ==
  /\ lp.pc = "call"
  /\ lp' = [lp EXCEPT !.pc = "done"] @@
           [strokes |-> stroke_chunks(lp.fin, 0, lp.chunksize, <<>>)]
  /\ UNCHANGED notLoad

NextChunk == StrokeChunked

SpecChunk == InitSpecChunk /\ [][NextChunk]_vars

\* the segments of the path loaded in one piece
WholeSegments == chunk_segments(lp.fin, 0, Len(lp.fin), FALSE, <<>>)

===========================================================================
